---- MODULE Spec2Model ----
(***************************************************************************)
(* Kairo course-scheduling backend: the section-selection engine           *)
(* (ScheduleService, ScheduleGenerationView) and the per-user calendar     *)
(* store it writes to.                                                     *)
(*                                                                         *)
(* Python values are modelled as follows.                                  *)
(*   dict (insertion ordered)  a sequence of records, one per key          *)
(*   list                      a sequence                                  *)
(*   None                      the record None                             *)
(*   a time string             TimeStr(sh, sm, eh, em) for the text        *)
(*                             "sh:sm-eh:em", or TBA / NoTime for the      *)
(*                             texts 'TBA' / ''                            *)
(*   datetime.time             [hour, minute]                              *)
(***************************************************************************)
EXTENDS Naturals, Integers, Sequences, FiniteSets, TLC

VARIABLES
    \* ---- conflict detector applied to one pair of sections
    cf_a, cf_b, cf_ab, cf_ba, cf_pc,
    \* ---- ScheduleService.auto_select_sections (simple mode)
    available_sections,   \* the argument: dict course_code -> [section]
    call_arg,             \* the argument as it was when the call was made
    courses_by_options,   \* local: items sorted by number of sections
    idx,                  \* position of the for loop over courses_by_options
    selected_sections,    \* local: dict course_code -> section | None
    schedule,             \* local: list of the sections committed so far
    pc,                   \* "idle" | "loop" | "returned"
    first_call,           \* the first completed invocation: [arg, result], and
                          \* whether one that committed sections for another
                          \* argument has completed since
    \* ---- ScheduleGenerationView.select_valid_sections (grouped mode)
    g_available,          \* the argument: flat list of sections
    g_course_order,       \* local course_items (its keys), after the shuffle
    g_idx,                \* position of the for loop over course_items
    g_selected,           \* local selected: list of committed sections
    g_conflicts,          \* local conflicts: list of messages (course codes)
    g_pc,                 \* "called" | "loop" | "returned"
    \* ---- the calendar store and the generation requests
    calendar,             \* the UserCalendar table: a set of rows
    next_id,              \* the next primary key
    curriculum,           \* term -> the courses list of the curriculum
    course_data,          \* the course-data file: its state and its sections
                          \* by term and course code
    requests,             \* number of generation requests completed
    last_request,         \* (user, term) -> the latest request for them, or 0
    regen,                \* the latest clear-then-add, when it was the last
                          \* operation: its arguments and the row counts
    response,             \* what the latest request answered
    trace,                \* the latest request: its entry point, user and
                          \* terms, the codes it passed to the matcher and
                          \* whether a write failed during it
    \* ---- ScheduleService.find_sections_for_courses (fuzzy course matcher)
    m_course_sections,    \* what _load_course_data returned: code -> [section]
    m_course_codes,       \* the argument: list of requested codes
    m_result,             \* the returned dict, or None before the return
    m_selected,           \* what auto_select_sections made of it, or None
    m_pc,                 \* "called" | "returned" | "selected"
    \* ---- the candidate ordering of auto_select_sections
    o_sections,           \* one course's candidate list
    o_sorted,             \* sorted_sections, or None before the sort
    o_pc,                 \* "start" | "sorted"
    \* ---- clear_user_schedule and add_sections_to_calendar on their own ----
    mz_table,             \* the UserCalendar table: a set of rows
    mz_next_id,           \* the next primary key
    mz_op,                 \* the call made: its arguments, the table before
                          \* it and what it returned; None before the call
    \* ---- _parse_days_string on two-letter day codes ----
    d_codes,              \* the day codes, a sequence of Mo Tu We Th Fr Sa Su
    d_list,               \* the result for the list of the codes
    d_text,               \* the result for the codes written one after the other
    d_spaced,             \* the result for the codes separated by ", "
    d_pc,                  \* "start" | "parsed"
    \* generate_alternative_schedule: the loaded sections, the courses asked
    \* for, the current schedule, the preferences, what was returned
    alt_course_sections, alt_course_codes, alt_current_schedule,
    alt_preferences, alt_result, alt_pc,
    \* ---- two generate_new_schedule requests of one user and term at once
    cc_table,             \* the UserCalendar table: a set of rows
    cc_next_id,           \* the next primary key
    cc_year,              \* the year both requests pass on
    cc_selected,          \* request -> its selected_sections_map
    cc_created,           \* request -> the number of rows it has created
    cc_pc                 \* request -> "clear" | "add" | "done"

groupedVars == <<g_available, g_course_order, g_idx, g_selected, g_conflicts, g_pc>>
storeVars == <<calendar, next_id, curriculum, course_data, requests,
               last_request, regen, response, trace>>
matchVars == <<m_course_sections, m_course_codes, m_result, m_selected, m_pc>>
orderVars == <<o_sections, o_sorted, o_pc>>
dayVars == <<d_codes, d_list, d_text, d_spaced, d_pc>>
altVars == <<alt_course_sections, alt_course_codes, alt_current_schedule, alt_preferences, alt_result, alt_pc>>
concurrentVars == <<cc_table, cc_next_id, cc_year, cc_selected, cc_created, cc_pc>>
materializeVars == <<mz_table, mz_next_id, mz_op>>
cfVars == <<cf_a, cf_b, cf_ab, cf_ba, cf_pc>>
simpleVars == <<available_sections, call_arg, courses_by_options, idx,
                selected_sections, schedule, pc, first_call>>
vars == <<cfVars, simpleVars, groupedVars, storeVars, matchVars, orderVars,
          materializeVars,
          dayVars,
          altVars,
          concurrentVars>>

\* what the actions of one component leave alone
notConflict == <<simpleVars, groupedVars, storeVars, matchVars, orderVars,
                 materializeVars,
                 dayVars,
                 altVars,
                 concurrentVars>>
notSimple == <<cfVars, groupedVars, storeVars, matchVars, orderVars,
               materializeVars,
               dayVars,
               altVars,
               concurrentVars>>
notGrouped == <<cfVars, simpleVars, storeVars, matchVars, orderVars,
                materializeVars,
                dayVars,
                altVars,
                concurrentVars>>
notStore == <<cfVars, simpleVars, groupedVars, matchVars, orderVars,
              materializeVars,
              dayVars,
              altVars,
              concurrentVars>>
notMatch == <<cfVars, simpleVars, groupedVars, storeVars, orderVars,
              materializeVars,
              dayVars,
              altVars,
              concurrentVars>>
notDays == <<cfVars, simpleVars, groupedVars, storeVars, matchVars, orderVars, materializeVars,
             altVars,
             concurrentVars>>
notAlternative == <<cfVars, simpleVars, groupedVars, storeVars, matchVars, orderVars, materializeVars, dayVars,
                    concurrentVars>>
notConcurrent == <<cfVars, simpleVars, groupedVars, storeVars, matchVars, orderVars, materializeVars, dayVars, altVars>>
notMaterialize == <<cfVars, simpleVars, groupedVars, storeVars, matchVars, orderVars,
                    dayVars,
                    altVars,
                    concurrentVars>>
notOrder == <<cfVars, simpleVars, groupedVars, storeVars, matchVars,
              materializeVars,
              dayVars,
              altVars,
              concurrentVars>>

None == [none |-> TRUE]

Min(S) == CHOOSE x \in S : \A y \in S : x <= y

RECURSIVE SeqSum(_)
SeqSum(s) == IF s = <<>> THEN 0 ELSE Head(s) + SeqSum(Tail(s))

Range(s) == {s[i] : i \in DOMAIN s}

\* the element of a one-element set; { e(x) : x \in {v} } names the value v
The(S) == CHOOSE x \in S : TRUE

(***************************************************************************)
(* Time strings and weekday tokens                                         *)
(***************************************************************************)
TimeStr(sh, sm, eh, em) == [sh |-> sh, sm |-> sm, eh |-> eh, em |-> em]
TBA == [text |-> "TBA"]
NoTime == [text |-> ""]

Weekdays == {"Monday", "Tuesday", "Wednesday", "Thursday", "Friday",
             "Saturday", "Sunday"}

\* day_mapping of _parse_days_string: abbreviation -> day name
day_mapping ==
    [k \in {"M", "Mo", "T", "Tu", "W", "We", "R", "Th", "F", "Fr",
            "S", "Sa", "U", "Su"} |->
        CASE k \in {"M", "Mo"} -> "Monday"
          [] k \in {"T", "Tu"} -> "Tuesday"
          [] k \in {"W", "We"} -> "Wednesday"
          [] k \in {"R", "Th"} -> "Thursday"
          [] k \in {"F", "Fr"} -> "Friday"
          [] k \in {"S", "Sa"} -> "Saturday"
          [] k \in {"U", "Su"} -> "Sunday"]

\* str.title() of a token that is a day name in some letter case, else None
TitleOfDayName(item) ==
    CASE item \in {"Monday", "monday", "MONDAY"} -> "Monday"
      [] item \in {"Tuesday", "tuesday", "TUESDAY"} -> "Tuesday"
      [] item \in {"Wednesday", "wednesday", "WEDNESDAY"} -> "Wednesday"
      [] item \in {"Thursday", "thursday", "THURSDAY"} -> "Thursday"
      [] item \in {"Friday", "friday", "FRIDAY"} -> "Friday"
      [] item \in {"Saturday", "saturday", "SATURDAY"} -> "Saturday"
      [] item \in {"Sunday", "sunday", "SUNDAY"} -> "Sunday"
      [] OTHER -> "<not a day name>"

IsDayName(item) == TitleOfDayName(item) \in Weekdays

(***************************************************************************)
(* ScheduleService._parse_time_string: a (start, end) pair of times, or    *)
(* None for '' / 'TBA' / a text no pattern matches / a field time()        *)
(* rejects (ValueError, caught).                                           *)
(***************************************************************************)
_parse_time_string(time_str) ==
    IF "text" \in DOMAIN time_str THEN None
    ELSE IF time_str.sh > 23 \/ time_str.sm > 59
            \/ time_str.eh > 23 \/ time_str.em > 59 THEN None
    ELSE <<[hour |-> time_str.sh, minute |-> time_str.sm],
           [hour |-> time_str.eh, minute |-> time_str.em]>>

(***************************************************************************)
(* ScheduleService._parse_days_string, list form: day names in any letter  *)
(* case are kept (title-cased), known abbreviations are mapped, anything   *)
(* else is dropped.  Order and repetitions are kept.                       *)
(***************************************************************************)
RECURSIVE _parse_days_string(_)
_parse_days_string(days_input) ==
    IF days_input = <<>> THEN <<>>
    ELSE LET item == Head(days_input)
             rest == _parse_days_string(Tail(days_input))
         IN  IF IsDayName(item) THEN <<TitleOfDayName(item)>> \o rest
             ELSE IF item \in DOMAIN day_mapping THEN <<day_mapping[item]>> \o rest
             ELSE rest

\* datetime.time's  a <= b : by hour, then by minute
TimeLE(a, b) == a.hour < b.hour \/ (a.hour = b.hour /\ a.minute <= b.minute)

\* a mutant of _times_conflict: the second disjunct dropped
TimesConflictOneSided(time1, time2) == ~ TimeLE(time1[2], time2[1])

\* a mutant of _times_conflict: touching ranges counted as overlapping
TimesConflictClosed(time1, time2) ==
    ~ (   (TimeLE(time1[2], time2[1]) /\ time1[2] # time2[1])
       \/ (TimeLE(time2[2], time1[1]) /\ time2[2] # time1[1]))

(***************************************************************************)
(* ScheduleService._times_conflict                                         *)
(***************************************************************************)
_times_conflict(time1, time2) ==
    ~ (TimeLE(time1[2], time2[1]) \/ TimeLE(time2[2], time1[1]))

\* a mutant of _section_conflicts_with_schedule: only the most recently
\* scheduled item is looked at
ConflictsWithLastOnly(section, existing_schedule) ==
    LET section_times == _parse_time_string(section.time)
        section_days == _parse_days_string(section.days)
        n == Len(existing_schedule)
    IN  IF section_times = None \/ section_days = <<>> \/ n = 0 THEN FALSE
        ELSE LET scheduled_times == _parse_time_string(existing_schedule[n].time)
                 scheduled_days == _parse_days_string(existing_schedule[n].days)
             IN  /\ scheduled_times # None
                 /\ scheduled_days # <<>>
                 /\ Range(section_days) \cap Range(scheduled_days) # {}
                 /\ _times_conflict(section_times, scheduled_times)

\* a mutant of _section_conflicts_with_schedule: a section without parsed
\* time or days conflicts with whatever is committed
ConflictsWhenUnparsed(section, existing_schedule) ==
    LET section_times == _parse_time_string(section.time)
        section_days == _parse_days_string(section.days)
    IN  IF section_times = None \/ section_days = <<>> THEN existing_schedule # <<>>
        ELSE \E i \in DOMAIN existing_schedule :
                LET scheduled_times == _parse_time_string(existing_schedule[i].time)
                    scheduled_days == _parse_days_string(existing_schedule[i].days)
                IN  /\ scheduled_times # None
                    /\ scheduled_days # <<>>
                    /\ Range(section_days) \cap Range(scheduled_days) # {}
                    /\ _times_conflict(section_times, scheduled_times)

(***************************************************************************)
(* ScheduleService._section_conflicts_with_schedule                        *)
(***************************************************************************)
_section_conflicts_with_schedule(section, existing_schedule) ==
    LET section_times == _parse_time_string(section.time)
        section_days == _parse_days_string(section.days)
    IN  IF section_times = None \/ section_days = <<>> THEN FALSE
        ELSE \E i \in DOMAIN existing_schedule :
                LET scheduled_times == _parse_time_string(existing_schedule[i].time)
                    scheduled_days == _parse_days_string(existing_schedule[i].days)
                IN  /\ scheduled_times # None
                    /\ scheduled_days # <<>>
                    /\ Range(section_days) \cap Range(scheduled_days) # {}
                    /\ _times_conflict(section_times, scheduled_times)

(***************************************************************************)
(* The conflict relation as the specification words it: both sections have *)
(* parsed days and a parsed time range, they share a weekday, and          *)
(* NOT (a.end <= b.start OR b.end <= a.start), in minutes since midnight.  *)
(***************************************************************************)
HasParsedSchedule(s) ==
    _parse_time_string(s.time) # None /\ _parse_days_string(s.days) # <<>>

StartMinute(s) ==
    LET t == _parse_time_string(s.time) IN t[1].hour * 60 + t[1].minute

EndMinute(s) ==
    LET t == _parse_time_string(s.time) IN t[2].hour * 60 + t[2].minute

WeekdaysOf(s) == Range(_parse_days_string(s.days))

SharesWeekdayAndOverlaps(a, b) ==
    /\ WeekdaysOf(a) \cap WeekdaysOf(b) # {}
    /\ ~ (EndMinute(a) <= StartMinute(b) \/ EndMinute(b) <= StartMinute(a))

DoubleBooked(a, b) ==
    HasParsedSchedule(a) /\ HasParsedSchedule(b) /\ SharesWeekdayAndOverlaps(a, b)

(***************************************************************************)
(* Conflict detector on one pair of sections (SpecConflict).  The pair is  *)
(* drawn from every combination of the time texts and day lists below and  *)
(* each section is checked against the schedule holding only the other.    *)
(***************************************************************************)
CfTimes == {TBA, NoTime,
            TimeStr(8, 30, 10, 0), TimeStr(10, 0, 11, 30),
            TimeStr(9, 59, 11, 0), TimeStr(10, 0, 10, 0),
            TimeStr(25, 0, 26, 0)}

CfDays == {<<>>, <<"Monday", "Wednesday">>, <<"Tuesday", "Thursday">>,
           <<"Mo", "We">>, <<"wednesday", "Xx">>, <<"Xx">>}

CfSections == {[section |-> "A01", time |-> t, days |-> d] :
                  t \in CfTimes, d \in CfDays}

CfIdle ==
    /\ cf_a = None /\ cf_b = None
    /\ cf_ab = FALSE /\ cf_ba = FALSE /\ cf_pc = "off"

SimpleIdle ==
    /\ available_sections = <<>> /\ call_arg = <<>>
    /\ courses_by_options = <<>> /\ idx = 1
    /\ selected_sections = <<>> /\ schedule = <<>>
    /\ pc = "off" /\ first_call = None

GroupedIdle ==
    /\ g_available = <<>> /\ g_course_order = <<>> /\ g_idx = 1
    /\ g_selected = <<>> /\ g_conflicts = <<>> /\ g_pc = "off"

StoreIdle ==
    /\ calendar = {} /\ next_id = 1
    /\ curriculum = <<>> /\ course_data = None
    /\ requests = 0 /\ last_request = <<>> /\ regen = None
    /\ response = None /\ trace = None

MatchIdle ==
    /\ m_course_sections = <<>> /\ m_course_codes = <<>>
    /\ m_result = None /\ m_selected = None /\ m_pc = "off"

OrderIdle == o_sections = <<>> /\ o_sorted = None /\ o_pc = "off"

DaysIdle == d_codes = <<>> /\ d_list = None /\ d_text = None /\ d_spaced = None /\ d_pc = "off"

AlternativeIdle == alt_course_sections = <<>> /\ alt_course_codes = <<>> /\ alt_current_schedule = <<>> /\ alt_preferences = None /\ alt_result = None /\ alt_pc = "off"

ConcurrentIdle == cc_table = {} /\ cc_next_id = 0 /\ cc_year = 0 /\ cc_selected = <<>> /\ cc_created = <<>> /\ cc_pc = <<>>

MaterializeIdle == mz_table = {} /\ mz_next_id = 1 /\ mz_op = None

InitConflict ==
    /\ cf_a \in CfSections /\ cf_b \in CfSections
    /\ cf_ab = FALSE /\ cf_ba = FALSE /\ cf_pc = "start"
    /\ SimpleIdle /\ GroupedIdle /\ StoreIdle /\ MatchIdle /\ OrderIdle
    /\ MaterializeIdle
    /\ ConcurrentIdle
    /\ AlternativeIdle
    /\ DaysIdle

CheckAB ==
    /\ cf_pc = "start"
    /\ cf_ab' = _section_conflicts_with_schedule(cf_a, <<cf_b>>)
    /\ cf_pc' = "ab"
    /\ UNCHANGED <<cf_a, cf_b, cf_ba, notConflict>>

CheckBA ==
    /\ cf_pc = "ab"
    /\ cf_ba' = _section_conflicts_with_schedule(cf_b, <<cf_a>>)
    /\ cf_pc' = "done"
    /\ UNCHANGED <<cf_a, cf_b, cf_ab, notConflict>>

NextConflict == CheckAB \/ CheckBA

SpecConflict == InitConflict /\ [][NextConflict]_vars

ProperRange(s) == StartMinute(s) < EndMinute(s)

\* C8: two sections that both have parsed days and times conflict iff they
\* share a weekday and NOT (a.end <= b.start OR b.end <= a.start); a section
\* ending when the other starts does not conflict, a one-minute overlap on a
\* shared day does, identical times on disjoint days do not.
C8_ConflictIffSharedDayAndOverlap ==
    (cf_pc \in {"ab", "done"} /\ HasParsedSchedule(cf_a) /\ HasParsedSchedule(cf_b)) =>
        /\ cf_ab = SharesWeekdayAndOverlaps(cf_a, cf_b)
        /\ (/\ WeekdaysOf(cf_a) \cap WeekdaysOf(cf_b) # {}
            /\ EndMinute(cf_a) = StartMinute(cf_b)
            /\ ProperRange(cf_a) /\ ProperRange(cf_b)) => ~ cf_ab
        /\ (/\ WeekdaysOf(cf_a) \cap WeekdaysOf(cf_b) # {}
            /\ EndMinute(cf_a) = StartMinute(cf_b) + 1
            /\ ProperRange(cf_a) /\ ProperRange(cf_b)) => cf_ab
        /\ (/\ WeekdaysOf(cf_a) \cap WeekdaysOf(cf_b) = {}
            /\ cf_a.time = cf_b.time) => ~ cf_ab

\* a 10:00 end against a 10:00 start on a shared weekday, found not to conflict
C8_Witness ==
    /\ cf_pc = "ab"
    /\ HasParsedSchedule(cf_a) /\ HasParsedSchedule(cf_b)
    /\ WeekdaysOf(cf_a) \cap WeekdaysOf(cf_b) # {}
    /\ EndMinute(cf_a) = 600 /\ StartMinute(cf_b) = 600
    /\ ProperRange(cf_a) /\ ProperRange(cf_b)
    /\ cf_ab = FALSE

\* C9: conflict detection is symmetric: a against [b] answers as b against
\* [a], for every pair, also when days or time are missing.
C9_ConflictSymmetric == cf_pc = "done" => cf_ab = cf_ba

\* both directions checked for two different, overlapping sections
C9_Witness ==
    /\ cf_pc = "done"
    /\ cf_a.time # cf_b.time
    /\ cf_ab = TRUE /\ cf_ba = TRUE

(***************************************************************************)
(* ScheduleService._get_section_priority (lower is better)                 *)
(***************************************************************************)
TbaTimePenalty == 2000
OnlinePenalty == 1000

\* 'ONLINE' in location.upper() or 'TBA' in location.upper(), over the
\* location texts the model uses
IsOnlineOrTBA(location) ==
    location \in {"ONLINE", "Online", "TBA", "Online (TBA)"}

_get_section_priority(section) ==
    LET times == _parse_time_string(section.time)
    IN  (IF times # None THEN times[1].hour * 60 + times[1].minute
         ELSE TbaTimePenalty)
        + (IF IsOnlineOrTBA(section.location) THEN OnlinePenalty ELSE 0)

\* the sort key of auto_select_sections: (0 if open else 1, priority)
SectionSortKey(s) == <<IF s.is_open THEN 0 ELSE 1, _get_section_priority(s)>>

\* Python's tuple comparison  k1 < k2
KeyLess(k1, k2) == k1[1] < k2[1] \/ (k1[1] = k2[1] /\ k1[2] < k2[2])

\* s put behind every element whose key is not greater (sorted() is stable)
InsertSection(sorted, s) ==
    LET n == Cardinality({i \in DOMAIN sorted :
                 ~ KeyLess(SectionSortKey(s), SectionSortKey(sorted[i]))})
    IN  SubSeq(sorted, 1, n) \o <<s>> \o SubSeq(sorted, n + 1, Len(sorted))

\* a mutant of sorted_sections: the sections are tried in catalogue order
UnsortedSections(sections) == sections

\* sorted(sections, key = (open first, priority))
RECURSIVE sorted_sections(_)
sorted_sections(sections) ==
    IF sections = <<>> THEN <<>>
    ELSE InsertSection(sorted_sections(SubSeq(sections, 1, Len(sections) - 1)),
                       sections[Len(sections)])

InsertCourse(sorted, item) ==
    LET n == Cardinality({i \in DOMAIN sorted :
                 Len(sorted[i].sections) <= Len(item.sections)})
    IN  SubSeq(sorted, 1, n) \o <<item>> \o SubSeq(sorted, n + 1, Len(sorted))

\* a mutant of sorted_by_options: the courses are taken in the map's order
UnsortedCourses(items) == items

\* sorted(available_sections.items(), key = number of sections)
RECURSIVE sorted_by_options(_)
sorted_by_options(items) ==
    IF items = <<>> THEN <<>>
    ELSE InsertCourse(sorted_by_options(SubSeq(items, 1, Len(items) - 1)),
                      items[Len(items)])

\* the body of the loop over one course: its best section, or None
best_section(sections, existing_schedule) ==
    IF sections = <<>> THEN None
    ELSE LET sorted == sorted_sections(sections)
             free == {i \in DOMAIN sorted :
                        ~ _section_conflicts_with_schedule(sorted[i], existing_schedule)}
         IN  IF free = {} THEN None ELSE sorted[Min(free)]

\* a mutant of InitialSchedule: the committed list outlives the invocation
LeakedSchedule(previous) == previous

\* schedule = [] at the start of every invocation
InitialSchedule(previous) == <<>>

(***************************************************************************)
(* Candidate maps given to auto_select_sections.  A map lists the first n  *)
(* course codes in order, with at most maxTotal sections overall, each     *)
(* drawn from the universe U.                                              *)
(***************************************************************************)
CourseCodes == <<"MAT1341", "CSI2110", "ITI1100">>

NonDecreasing(k, n) ==
    {a \in [1..k -> 1..n] : \A i \in 1..k : \A j \in 1..k : i < j => a[i] <= a[j]}

BuildMap(n, flat, a) ==
    [c \in 1..n |->
        LET before == Cardinality({j \in DOMAIN flat : a[j] < c})
            count  == Cardinality({j \in DOMAIN flat : a[j] = c})
        IN  [code |-> CourseCodes[c],
             sections |-> [j \in 1..count |-> flat[before + j]]]]

Sec(label, t, d, open, loc) ==
    [section |-> label, time |-> t, days |-> d, is_open |-> open, location |-> loc]

SecA == Sec("A01", TimeStr(8, 30, 10, 0), <<"Monday", "Wednesday">>, TRUE, "STE A0150")
SecB == Sec("B01", TimeStr(10, 0, 11, 30), <<"Monday", "Wednesday">>, FALSE, "STE A0150")
SecC == Sec("C01", TimeStr(9, 59, 11, 0), <<"Monday">>, TRUE, "ONLINE")
SecD == Sec("D01", TimeStr(8, 30, 10, 0), <<"Tuesday", "Thursday">>, TRUE, "CBY B012")
SecE == Sec("E01", TBA, <<>>, FALSE, "TBA")
SecF == Sec("F01", TimeStr(9, 0, 10, 30), <<"Wednesday">>, FALSE, "CBY B012")

SimpleSections == {SecA, SecB, SecC, SecD, SecE, SecF}

MaxSections == 4
MaxRepeatSections == 2

RepeatSections == {SecA, SecB}

(***************************************************************************)
(* ScheduleService.auto_select_sections, one action per step               *)
(***************************************************************************)
\* lines 470-476: the locals are created and the courses are ordered
AutoSelectBegin ==
    /\ pc = "called"
    /\ selected_sections' = <<>>
    /\ schedule' = InitialSchedule(schedule)
    /\ courses_by_options' = sorted_by_options(available_sections)
    /\ idx' = 1
    /\ pc' = "loop"
    /\ UNCHANGED <<available_sections, call_arg, first_call, notSimple>>

\* lines 478-514: one pass of the loop over courses_by_options
AutoSelectCourse ==
    /\ pc = "loop"
    /\ idx <= Len(courses_by_options)
    /\ LET course_code == courses_by_options[idx].code
           sections == courses_by_options[idx].sections
           best == best_section(sections, schedule)
       IN  /\ selected_sections' =
                Append(selected_sections, [code |-> course_code, section |-> best])
           /\ schedule' = IF best # None THEN Append(schedule, best) ELSE schedule
    /\ idx' = idx + 1
    /\ UNCHANGED <<available_sections, call_arg, courses_by_options, pc,
                   first_call, notSimple>>

\* line 520: return selected_sections
AutoSelectReturn ==
    /\ pc = "loop"
    /\ idx > Len(courses_by_options)
    /\ pc' = "returned"
    /\ first_call' =
          IF first_call = None
          THEN [arg |-> call_arg, result |-> selected_sections, between |-> FALSE]
          ELSE [first_call EXCEPT !.between =
                   @ \/ (call_arg # first_call.arg /\ schedule # <<>>)]
    /\ UNCHANGED <<available_sections, call_arg, courses_by_options, idx,
                   selected_sections, schedule, notSimple>>

\* a caller invokes auto_select_sections with some candidate map
Invoke ==
    /\ pc \in {"idle", "returned"}
    /\ \E n \in 0..Len(CourseCodes), k \in 0..MaxRepeatSections :
          \E flat \in [1..k -> RepeatSections], a \in NonDecreasing(k, n) :
             /\ available_sections' = BuildMap(n, flat, a)
             /\ call_arg' = available_sections'
    \* a new frame: the locals are unassigned until line 470 onwards assigns
    \* them; what the previous invocation committed is still there to be
    \* replaced by line 471
    /\ courses_by_options' = <<>> /\ idx' = 1 /\ selected_sections' = <<>>
    /\ pc' = "called"
    /\ UNCHANGED <<schedule, first_call, notSimple>>

InitSimple ==
    /\ \E n \in 0..Len(CourseCodes), k \in 0..MaxSections :
          \E flat \in [1..k -> SimpleSections], a \in NonDecreasing(k, n) :
             /\ available_sections = BuildMap(n, flat, a)
             /\ call_arg = available_sections
    /\ courses_by_options = <<>> /\ idx = 1
    /\ selected_sections = <<>> /\ schedule = <<>>
    /\ pc = "called" /\ first_call = None
    /\ CfIdle /\ GroupedIdle /\ StoreIdle /\ MatchIdle /\ OrderIdle
    /\ MaterializeIdle
    /\ ConcurrentIdle
    /\ AlternativeIdle
    /\ DaysIdle

NextSimple == AutoSelectBegin \/ AutoSelectCourse \/ AutoSelectReturn

\* one invocation on every candidate map
SpecSimple == InitSimple /\ [][NextSimple]_vars

InitRepeat ==
    /\ available_sections = <<>> /\ call_arg = <<>>
    /\ courses_by_options = <<>> /\ idx = 1
    /\ selected_sections = <<>> /\ schedule = <<>>
    /\ pc = "idle" /\ first_call = None
    /\ CfIdle /\ GroupedIdle /\ StoreIdle /\ MatchIdle /\ OrderIdle
    /\ MaterializeIdle
    /\ ConcurrentIdle
    /\ AlternativeIdle
    /\ DaysIdle

NextRepeat == Invoke \/ AutoSelectBegin \/ AutoSelectCourse \/ AutoSelectReturn

\* invocation after invocation, each on any candidate map
SpecRepeat == InitRepeat /\ [][NextRepeat]_vars

(***************************************************************************)
(* Properties of simple-mode selection                                     *)
(***************************************************************************)
CandidatesOf(code) ==
    LET i == CHOOSE i \in DOMAIN call_arg : call_arg[i].code = code
    IN  call_arg[i].sections

SelectedFor(code) ==
    LET i == CHOOSE i \in DOMAIN selected_sections : selected_sections[i].code = code
    IN  selected_sections[i].section

\* the sections committed for the courses processed before the k-th
CommittedBefore(k) ==
    {selected_sections[i].section : i \in {j \in 1..(k - 1) :
                                             selected_sections[j].section # None}}

ConflictsWithAny(s, committed) == \E t \in committed : DoubleBooked(s, t)

\* open before closed, then ascending priority score
Precedes(s, t) ==
    \/ s.is_open /\ ~ t.is_open
    \/ s.is_open = t.is_open /\ _get_section_priority(s) < _get_section_priority(t)

SameRank(s, t) ==
    s.is_open = t.is_open /\ _get_section_priority(s) = _get_section_priority(t)

\* C1: in the result of simple-mode selection no two selected sections share a
\* weekday with overlapping time ranges.
C1_NoDoubleBookingSimple ==
    \A i \in DOMAIN selected_sections : \A j \in DOMAIN selected_sections :
        (i # j /\ selected_sections[i].section # None
               /\ selected_sections[j].section # None)
        => ~ DoubleBooked(selected_sections[i].section, selected_sections[j].section)

\* two courses scheduled, one of them having been offered a section that
\* clashes with the other's
C1_Witness ==
    /\ pc = "returned"
    /\ \E i \in DOMAIN selected_sections : \E j \in DOMAIN selected_sections :
          /\ i # j
          /\ selected_sections[i].section # None
          /\ selected_sections[j].section # None
          /\ \E c \in Range(CandidatesOf(selected_sections[j].code)) :
                DoubleBooked(c, selected_sections[i].section)

FirstFreeCandidate(k) ==
    LET e == selected_sections[k]
        cands == CandidatesOf(e.code)
        before == CommittedBefore(k)
    IN  IF e.section = None
        THEN \A i \in DOMAIN cands : ConflictsWithAny(cands[i], before)
        ELSE \E p \in DOMAIN cands :
                /\ cands[p] = e.section
                /\ ~ ConflictsWithAny(cands[p], before)
                /\ \A i \in DOMAIN cands :
                      (Precedes(cands[i], cands[p])
                         \/ (SameRank(cands[i], cands[p]) /\ i < p))
                      => ConflictsWithAny(cands[i], before)

\* C5: every course gets exactly one entry: the first candidate, open before
\* closed and then by ascending priority score, that clashes with no section
\* committed for the courses processed before it (a closed one when nothing
\* else is free), or None when it has no candidate or all of them clash; a
\* None does not stop the later courses.
C5_FirstNonConflictingCandidate ==
    /\ \A k \in DOMAIN selected_sections : FirstFreeCandidate(k)
    /\ pc = "returned" =>
          /\ Len(selected_sections) = Len(call_arg)
          /\ \A i \in DOMAIN call_arg :
                Cardinality({k \in DOMAIN selected_sections :
                                selected_sections[k].code = call_arg[i].code}) = 1

\* a course left with None although it had candidates, and a later course
\* given a closed section because its open candidate clashes
C5_Witness ==
    /\ pc = "returned"
    /\ \E k0 \in DOMAIN selected_sections : \E k \in DOMAIN selected_sections :
          /\ k0 < k
          /\ selected_sections[k0].section = None
          /\ CandidatesOf(selected_sections[k0].code) # <<>>
          /\ selected_sections[k].section # None
          /\ ~ selected_sections[k].section.is_open
          /\ \E c \in Range(CandidatesOf(selected_sections[k].code)) :
                c.is_open /\ ConflictsWithAny(c, CommittedBefore(k))

ScarceCourseCase(A, B) ==
    /\ Len(call_arg) = 2
    /\ A # B
    /\ Len(call_arg[A].sections) = 1
    /\ Len(call_arg[B].sections) > 1
    /\ \E i \in DOMAIN call_arg[B].sections :
          DoubleBooked(call_arg[A].sections[1], call_arg[B].sections[i])
    /\ \E i \in DOMAIN call_arg[B].sections :
          ~ DoubleBooked(call_arg[A].sections[1], call_arg[B].sections[i])

\* C6: courses are processed in ascending order of candidate count; with a
\* course A of one candidate and a course B of several, A's clashing with one
\* of B's while another of B's is free of it, both A and B are scheduled.
C6_FewestOptionsFirst ==
    /\ \A i \in DOMAIN selected_sections : \A j \in DOMAIN selected_sections :
          i < j => Len(CandidatesOf(selected_sections[i].code))
                     <= Len(CandidatesOf(selected_sections[j].code))
    /\ pc = "returned" =>
          \A A \in DOMAIN call_arg : \A B \in DOMAIN call_arg :
              ScarceCourseCase(A, B) =>
                  /\ SelectedFor(call_arg[A].code) # None
                  /\ SelectedFor(call_arg[B].code) # None

\* B listed first and preferring the very section A needs; both scheduled
C6_Witness ==
    /\ pc = "returned"
    /\ ScarceCourseCase(2, 1)
    /\ sorted_sections(call_arg[1].sections)[1] = call_arg[2].sections[1]
    /\ SelectedFor(call_arg[1].code) # None
    /\ SelectedFor(call_arg[2].code) = call_arg[2].sections[1]

\* C7: an invocation on the candidate map of the first invocation returns
\* what the first one returned, whatever was invoked in between, and the
\* map (with its candidate lists) is as it was when the call was made.
C7_DeterministicStateless ==
    pc = "returned" =>
        /\ call_arg = first_call.arg => selected_sections = first_call.result
        /\ available_sections = call_arg

\* the first argument invoked again after another invocation committed
\* sections of its own
C7_Witness ==
    /\ pc = "returned"
    /\ call_arg = first_call.arg
    /\ first_call.between
    /\ \E k \in DOMAIN selected_sections : selected_sections[k].section # None

\* sections without a parsed time, without parsed days, and without both
UnparsedSections ==
    {Sec("U01", TBA, <<"Monday", "Wednesday">>, TRUE, "STE A0150"),
     Sec("U02", TimeStr(8, 30, 10, 0), <<>>, TRUE, "STE A0150"),
     Sec("U03", TimeStr(8, 30, 10, 0), <<"Xx">>, TRUE, "STE A0150"),
     SecE}

\* C26: a section whose days or time cannot be parsed conflicts with no
\* committed list, and taking the committed sections whose days or time
\* cannot be parsed out of the list, or putting one in, changes no
\* candidate's answer; a course that has such a candidate is given a section.
C26_UnparsedNeverConflicts ==
    /\ \A u \in UnparsedSections :
          /\ ~ _section_conflicts_with_schedule(u, schedule)
          /\ \A c \in SimpleSections :
                _section_conflicts_with_schedule(c, Append(schedule, u))
                    = _section_conflicts_with_schedule(c, schedule)
    /\ \A c \in SimpleSections :
          _section_conflicts_with_schedule(c, schedule)
              = _section_conflicts_with_schedule(c, SelectSeq(schedule, HasParsedSchedule))
    /\ pc = "returned" =>
          \A i \in DOMAIN call_arg :
             (\E k \in DOMAIN call_arg[i].sections :
                 ~ HasParsedSchedule(call_arg[i].sections[k]))
                => SelectedFor(call_arg[i].code) # None

\* a course given a section without parsed days and time after sections
\* were committed, and a course given a parsed section after that one
C26_Witness ==
    /\ pc = "returned"
    /\ \E i, j, k \in DOMAIN selected_sections :
          /\ i < j /\ j < k
          /\ selected_sections[i].section # None
          /\ HasParsedSchedule(selected_sections[i].section)
          /\ selected_sections[j].section # None
          /\ ~ HasParsedSchedule(selected_sections[j].section)
          /\ selected_sections[k].section # None
          /\ HasParsedSchedule(selected_sections[k].section)

(***************************************************************************)
(* ScheduleGenerationView.select_valid_sections (grouped mode).  A section *)
(* is the dict get_live_sections builds; its section_code is modelled as   *)
(* the sequence of its characters.                                         *)
(***************************************************************************)
GSec(course, code, type, t, d, open) ==
    [course_code |-> course, section_code |-> code, type |-> type,
     time |-> t, days |-> d, is_open |-> open]

\* the elements of s at the positions in I, in order
RECURSIVE Pick(_, _)
Pick(s, I) ==
    IF s = <<>> THEN <<>>
    ELSE LET front == Pick(SubSeq(s, 1, Len(s) - 1), I)
         IN  IF Len(s) \in I THEN Append(front, s[Len(s)]) ELSE front

\* the distinct elements of s in order of first appearance (dict keys)
RECURSIVE KeysInOrder(_)
KeysInOrder(s) ==
    IF s = <<>> THEN <<>>
    ELSE LET front == KeysInOrder(SubSeq(s, 1, Len(s) - 1))
         IN  IF s[Len(s)] \in Range(front) THEN front ELSE Append(front, s[Len(s)])

\* random.shuffle: any order of the elements of s (all distinct)
Shuffles(s) ==
    {p \in [1..Len(s) -> Range(s)] : \A i \in 1..Len(s) : \A j \in 1..Len(s) :
                                        i # j => p[i] # p[j]}

\* line 4237: the first character of the section code, 'A' without one
section_group(section) ==
    IF section.section_code # <<>> THEN section.section_code[1] ELSE "A"

\* lines 4230-4246: courses[course_code][section_group][section_type]
CourseKeys(sections) ==
    KeysInOrder([i \in DOMAIN sections |-> sections[i].course_code])

SectionsOfCourse(sections, course_code) ==
    Pick(sections, {i \in DOMAIN sections : sections[i].course_code = course_code})

GroupKeys(course_sections) ==
    KeysInOrder([i \in DOMAIN course_sections |-> section_group(course_sections[i])])

SectionsOfGroup(course_sections, group_id) ==
    Pick(course_sections,
         {i \in DOMAIN course_sections : section_group(course_sections[i]) = group_id})

TypeKeys(group_sections) ==
    KeysInOrder([i \in DOMAIN group_sections |-> group_sections[i].type])

SectionsOfType(group_sections, section_type) ==
    Pick(group_sections,
         {i \in DOMAIN group_sections : group_sections[i].type = section_type})

NoStartMinutes == 1000000

\* lines 4273-4284: minutes of the first HH:MM of the time text
start_minutes(sec) ==
    IF "text" \in DOMAIN sec.time THEN NoStartMinutes
    ELSE sec.time.sh * 60 + sec.time.sm

GroupedSortKey(s) == <<IF s.is_open THEN 0 ELSE 1, start_minutes(s)>>

InsertGrouped(sorted, s) ==
    LET n == Cardinality({i \in DOMAIN sorted :
                 ~ KeyLess(GroupedSortKey(s), GroupedSortKey(sorted[i]))})
    IN  SubSeq(sorted, 1, n) \o <<s>> \o SubSeq(sorted, n + 1, Len(sorted))

\* lines 4285-4288: sorted(sections.copy(), key = (open first, start))
RECURSIVE shuffled_sections(_)
shuffled_sections(sections) ==
    IF sections = <<>> THEN <<>>
    ELSE InsertGrouped(shuffled_sections(SubSeq(sections, 1, Len(sections) - 1)),
                       sections[Len(sections)])

(***************************************************************************)
(* ScheduleGenerationView.has_time_conflict: the day lists as given, the   *)
(* time texts compared for equality                                        *)
(***************************************************************************)
has_time_conflict(new_section, existing_sections) ==
    IF new_section.days = <<>> \/ new_section.time = NoTime THEN FALSE
    ELSE \E i \in DOMAIN existing_sections :
            /\ Range(new_section.days) \cap Range(existing_sections[i].days) # {}
            /\ new_section.time = existing_sections[i].time

\* lines 4271-4303: one section per type of the group, in the order of the
\* types, up to the first type without a conflict-free section
RECURSIVE try_types(_, _, _, _)
try_types(type_keys, group_sections, selected, group_selections) ==
    IF type_keys = <<>>
    THEN [group_has_conflicts |-> FALSE, group_selections |-> group_selections]
    ELSE LET sorted == shuffled_sections(SectionsOfType(group_sections, Head(type_keys)))
             free == {i \in DOMAIN sorted :
                        ~ has_time_conflict(sorted[i], selected \o group_selections)}
         IN  IF free = {}
             THEN [group_has_conflicts |-> TRUE, group_selections |-> group_selections]
             ELSE try_types(Tail(type_keys), group_sections, selected,
                            Append(group_selections, sorted[Min(free)]))

try_group(group_sections, selected) ==
    try_types(TypeKeys(group_sections), group_sections, selected, <<>>)

\* a mutant of group_works: a group is taken with whatever it got
GroupWorksIgnoringConflicts(attempt) == attempt.group_selections # <<>>

\* line 4305: if not group_has_conflicts and group_selections
group_works(attempt) ==
    ~ attempt.group_has_conflicts /\ attempt.group_selections # <<>>

\* lines 4264-4310: the selections of the first group, in the shuffled
\* order, that works; [] when none does
RECURSIVE course_selections(_, _, _)
course_selections(available_groups, course_sections, selected) ==
    IF available_groups = <<>> THEN <<>>
    ELSE LET attempt == try_group(SectionsOfGroup(course_sections, Head(available_groups)),
                                  selected)
         IN  IF group_works(attempt) THEN attempt.group_selections
             ELSE course_selections(Tail(available_groups), course_sections, selected)

GS1 == GSec("CSI2110", <<"A", "0", "0">>, "LEC", TimeStr(8, 30, 10, 0), <<"Monday">>, TRUE)
GS2 == GSec("CSI2110", <<"A", "0", "1">>, "LAB", TimeStr(9, 0, 10, 30), <<"Monday">>, TRUE)
GS3 == GSec("CSI2110", <<"B", "0", "0">>, "LEC", TimeStr(8, 30, 10, 0), <<"Tuesday">>, FALSE)
GS4 == GSec("CSI2110", <<"B", "0", "1">>, "LAB", TimeStr(8, 30, 10, 0), <<"Monday">>, TRUE)
GS5 == GSec("MAT1341", <<"A", "0", "0">>, "LEC", TimeStr(8, 30, 10, 0), <<"Monday">>, TRUE)
GS6 == GSec("MAT1341", <<>>, "DGD", NoTime, <<"Wednesday">>, FALSE)
GS7 == GSec("MAT1341", <<"B", "0", "0">>, "LEC", TimeStr(10, 0, 11, 30), <<"Monday", "Wednesday">>, FALSE)
GS8 == GSec("CSI2110", <<"A", "0", "2">>, "LAB", TimeStr(13, 0, 14, 30), <<"Wednesday">>, FALSE)

GroupedSections == {GS1, GS2, GS3, GS4, GS5, GS6, GS7, GS8}

MaxGroupedSections == 4

\* lines 4225-4250: the locals are created, the sections grouped and the
\* course order shuffled
GroupedBegin ==
    /\ g_pc = "called"
    /\ g_selected' = <<>>
    /\ g_conflicts' = <<>>
    /\ g_course_order' \in Shuffles(CourseKeys(g_available))
    /\ g_idx' = 1
    /\ g_pc' = "loop"
    /\ UNCHANGED <<g_available, notGrouped>>

\* lines 4253-4320: one pass of the loop over the courses
GroupedCourse ==
    /\ g_pc = "loop"
    /\ g_idx <= Len(g_course_order)
    /\ LET course_code == g_course_order[g_idx]
           course_sections == SectionsOfCourse(g_available, course_code)
       IN  \E available_groups \in Shuffles(GroupKeys(course_sections)) :
              LET chosen == course_selections(available_groups, course_sections, g_selected)
              IN  /\ g_selected' = g_selected \o chosen
                  /\ g_conflicts' = IF chosen = <<>>
                                    THEN Append(g_conflicts, course_code)
                                    ELSE g_conflicts
    /\ g_idx' = g_idx + 1
    /\ UNCHANGED <<g_available, g_course_order, g_pc, notGrouped>>

\* line 4325: return selected
GroupedReturn ==
    /\ g_pc = "loop"
    /\ g_idx > Len(g_course_order)
    /\ g_pc' = "returned"
    /\ UNCHANGED <<g_available, g_course_order, g_idx, g_selected, g_conflicts,
                   notGrouped>>

InitGrouped ==
    /\ \E k \in 0..MaxGroupedSections :
          \E flat \in [1..k -> GroupedSections] : g_available = flat
    /\ g_course_order = <<>> /\ g_idx = 1
    /\ g_selected = <<>> /\ g_conflicts = <<>> /\ g_pc = "called"
    /\ CfIdle /\ SimpleIdle /\ StoreIdle /\ MatchIdle /\ OrderIdle
    /\ MaterializeIdle
    /\ ConcurrentIdle
    /\ AlternativeIdle
    /\ DaysIdle

NextGrouped == GroupedBegin \/ GroupedCourse \/ GroupedReturn

\* one invocation on every list of sections, under every shuffle
SpecGrouped == InitGrouped /\ [][NextGrouped]_vars

\* the sections committed for a course, as positions of the returned list
CommittedAt(course_code) ==
    {i \in DOMAIN g_selected : g_selected[i].course_code = course_code}

\* C2: the sections grouped-mode selection returns are pairwise free of
\* conflict: no two share a weekday with overlapping time ranges, identical
\* or not, under every shuffle.
C2_NoDoubleBookingGrouped ==
    \A i \in DOMAIN g_selected : \A j \in DOMAIN g_selected :
        i # j => ~ DoubleBooked(g_selected[i], g_selected[j])

WholeGroup(course_code, group_id) ==
    LET group_sections ==
            SectionsOfGroup(SectionsOfCourse(g_available, course_code), group_id)
    IN  /\ \A i \in CommittedAt(course_code) :
              /\ section_group(g_selected[i]) = group_id
              /\ g_selected[i] \in Range(group_sections)
        /\ \A t \in {group_sections[k].type : k \in DOMAIN group_sections} :
              Cardinality({i \in CommittedAt(course_code) : g_selected[i].type = t}) = 1

\* C10: the sections committed for a course all carry one section-group
\* letter and are exactly one section for each type present in that group; a
\* group with a type that has no conflict-free candidate contributes
\* nothing, and a course without a working group contributes nothing.
C10_GroupCommittedWhole ==
    \A c \in {g_available[i].course_code : i \in DOMAIN g_available} :
        \/ CommittedAt(c) = {}
        \/ \E i \in CommittedAt(c) : WholeGroup(c, section_group(g_selected[i]))

\* a course with nothing committed although one of its sections is free of
\* conflict with everything returned: its group lacked another type
C10_Witness ==
    /\ g_pc = "returned"
    /\ g_selected # <<>>
    /\ \E i \in DOMAIN g_available :
          /\ CommittedAt(g_available[i].course_code) = {}
          /\ ~ has_time_conflict(g_available[i], g_selected)

(***************************************************************************)
(* Python str values whose characters matter (course codes, curriculum     *)
(* entries) are sequences of one-character strings.                        *)
(***************************************************************************)
UpperCase == <<"A", "B", "C", "D", "E", "F", "G", "H", "I", "J", "K", "L", "M",
               "N", "O", "P", "Q", "R", "S", "T", "U", "V", "W", "X", "Y", "Z">>
LowerCase == <<"a", "b", "c", "d", "e", "f", "g", "h", "i", "j", "k", "l", "m",
               "n", "o", "p", "q", "r", "s", "t", "u", "v", "w", "x", "y", "z">>
Digits == <<"0", "1", "2", "3", "4", "5", "6", "7", "8", "9">>

IndexOf(s, ch) == CHOOSE i \in DOMAIN s : s[i] = ch

\* str.isalpha / str.isdigit of one character
isalpha(ch) == ch \in Range(UpperCase) \cup Range(LowerCase)
isdigit(ch) == ch \in Range(Digits)

\* str.upper / str.lower
upper(s) ==
    [i \in DOMAIN s |-> IF s[i] \in Range(LowerCase)
                        THEN UpperCase[IndexOf(LowerCase, s[i])] ELSE s[i]]
lower(s) ==
    [i \in DOMAIN s |-> IF s[i] \in Range(UpperCase)
                        THEN LowerCase[IndexOf(UpperCase, s[i])] ELSE s[i]]

NotSpace(ch) == ch # " "

\* str.replace(' ', '')
without_spaces(s) == SelectSeq(s, NotSpace)

\* str.strip() for blanks
RECURSIVE strip(_)
strip(s) ==
    IF s = <<>> THEN s
    ELSE IF Head(s) = " " THEN strip(Tail(s))
    ELSE IF s[Len(s)] = " " THEN strip(SubSeq(s, 1, Len(s) - 1))
    ELSE s

\* sub in s
Contains(s, sub) ==
    \E i \in 0..(Len(s) - Len(sub)) : SubSeq(s, i + 1, i + Len(sub)) = sub

\* s.startswith(prefix)
StartsWith(s, prefix) ==
    Len(prefix) <= Len(s) /\ SubSeq(s, 1, Len(prefix)) = prefix

\* s[:n]
Prefix(s, n) == SubSeq(s, 1, IF Len(s) < n THEN Len(s) ELSE n)

\* int() of a string of digits
RECURSIVE ToInt(_)
ToInt(digits) ==
    IF digits = <<>> THEN 0
    ELSE 10 * ToInt(SubSeq(digits, 1, Len(digits) - 1))
         + (IndexOf(Digits, digits[Len(digits)]) - 1)

\* Python's < on two strings: by the first differing character (here digits
\* sort before upper-case letters, as in ASCII), a proper prefix first
CharRank(ch) ==
    IF isdigit(ch) THEN IndexOf(Digits, ch)
    ELSE IF ch \in Range(UpperCase) THEN 10 + IndexOf(UpperCase, ch)
    ELSE IF ch \in Range(LowerCase) THEN 36 + IndexOf(LowerCase, ch)
    ELSE 0

RECURSIVE StrLess(_, _)
StrLess(a, b) ==
    IF b = <<>> THEN FALSE
    ELSE IF a = <<>> THEN TRUE
    ELSE IF Head(a) = Head(b) THEN StrLess(Tail(a), Tail(b))
    ELSE CharRank(Head(a)) < CharRank(Head(b))

(***************************************************************************)
(* Python dicts as sequences of [code, sections] records, in insertion     *)
(* order                                                                   *)
(***************************************************************************)
Keys(d) == [i \in DOMAIN d |-> d[i].code]

HasKey(d, k) == \E i \in DOMAIN d : d[i].code = k

Get(d, k) == d[CHOOSE i \in DOMAIN d : d[i].code = k].sections

\* d[k] = v
Put(d, k, v) ==
    IF HasKey(d, k)
    THEN [i \in DOMAIN d |-> IF d[i].code = k THEN [code |-> k, sections |-> v] ELSE d[i]]
    ELSE Append(d, [code |-> k, sections |-> v])

(***************************************************************************)
(* ScheduleService.find_sections_for_courses                               *)
(***************************************************************************)
_normalize_course_code(course_code) ==
    IF course_code = <<>> THEN <<>> ELSE upper(without_spaces(course_code))

\* the number of leading characters that are letters
RECURSIVE LeadingLetters(_)
LeadingLetters(s) ==
    IF s # <<>> /\ isalpha(Head(s)) THEN 1 + LeadingLetters(Tail(s)) ELSE 0

_add_space_to_course_code(course_code) ==
    IF Len(course_code) < 4 THEN course_code
    ELSE LET i == LeadingLetters(course_code)
         IN  IF i > 0 /\ i < Len(course_code)
             THEN SubSeq(course_code, 1, i) \o <<" ">>
                  \o SubSeq(course_code, i + 1, Len(course_code))
             ELSE course_code

\* extract_subject_and_number: the letters before the first digit, and the
\* number written by all the digits: <<n>>, or <<>> for None when there is
\* no digit
extract_subject_and_number(code) ==
    LET normalized == _normalize_course_code(code)
        digit_at == {i \in DOMAIN normalized : isdigit(normalized[i])}
        before == IF digit_at = {} THEN normalized
                  ELSE SubSeq(normalized, 1, Min(digit_at) - 1)
        number_chars == SelectSeq(normalized, isdigit)
    IN  [subject |-> SelectSeq(before, isalpha),
         number |-> IF number_chars = <<>> THEN <<>> ELSE <<ToInt(number_chars)>>]

\* subject_to_codes[subject]: the available codes of the subject, in the
\* order of the loaded dict, each with its number
subject_to_codes(available_codes, subject) ==
    LET SameSubject(avail) == extract_subject_and_number(avail).subject = subject
        codes == SelectSeq(available_codes, SameSubject)
    IN  [i \in DOMAIN codes |->
            [code |-> codes[i], number |-> extract_subject_and_number(codes[i]).number]]

\* the initial best_score: 10**9 in both places
WorstScore == 1000000000
\* the first place of the score of a pair without numbers: 10**8
NoNumberScore == 100000000

\* < on (diff, tie) tuples
ScoreLess(a, b) == a[1] < b[1] \/ (a[1] = b[1] /\ a[2] < b[2])

AbsDiff(a, b) == IF a < b THEN b - a ELSE a - b

\* the loop over the candidates of the subject: a candidate replaces the
\* best one only with a strictly smaller score
RECURSIVE best_candidate(_, _, _, _, _)
best_candidate(candidates, target_number, normalized_code, best_code, best_score) ==
    IF candidates = <<>> THEN best_code
    ELSE LET cand == Head(candidates)
             tie == IF cand.code = normalized_code THEN 0 ELSE 1
             score == IF target_number # <<>> /\ cand.number # <<>>
                      THEN <<AbsDiff(cand.number[1], target_number[1]), tie>>
                      ELSE <<NoNumberScore, tie>>
         IN  IF ScoreLess(score, best_score)
             THEN best_candidate(Tail(candidates), target_number, normalized_code,
                                 cand.code, score)
             ELSE best_candidate(Tail(candidates), target_number, normalized_code,
                                 best_code, best_score)

\* a mutant of fuzzy_match: any catalogue at all gives a match
AnyAvailableCode(course_code, course_sections) ==
    IF course_sections # <<>> THEN course_sections[1].code ELSE None

\* lines 419-448: the code a requested code without exact match is mapped
\* to, or None
fuzzy_match(course_code, course_sections) ==
    LET available_codes == Keys(course_sections)
        target == extract_subject_and_number(course_code)
        normalized_code == _normalize_course_code(course_code)
        by_subject ==
            IF target.subject # <<>>
               /\ subject_to_codes(available_codes, target.subject) # <<>>
            THEN best_candidate(subject_to_codes(available_codes, target.subject),
                                target.number, normalized_code,
                                None, <<WorstScore, WorstScore>>)
            ELSE None
        HasPrefix(code) == Contains(code, Prefix(normalized_code, 3))
        similar_codes == SelectSeq(available_codes, HasPrefix)
    IN  IF by_subject # None THEN by_subject
        ELSE IF similar_codes # <<>> THEN similar_codes[1]
        ELSE None

\* lines 399-452: the sections found for one requested code
sections_for(course_code, course_sections) ==
    LET normalized_code == _normalize_course_code(course_code)
        spaced_code == _add_space_to_course_code(course_code)
        best_code == fuzzy_match(course_code, course_sections)
    IN  IF HasKey(course_sections, course_code) THEN Get(course_sections, course_code)
        ELSE IF HasKey(course_sections, normalized_code)
             THEN Get(course_sections, normalized_code)
        ELSE IF HasKey(course_sections, spaced_code)
             THEN Get(course_sections, spaced_code)
        ELSE IF best_code # None THEN Get(course_sections, best_code)
        ELSE <<>>

\* the loop over course_codes, filling result
RECURSIVE find_loop(_, _, _)
find_loop(course_codes, course_sections, result) ==
    IF course_codes = <<>> THEN result
    ELSE find_loop(Tail(course_codes), course_sections,
                   Put(result, Head(course_codes),
                       sections_for(Head(course_codes), course_sections)))

\* find_sections_for_courses, given what _load_course_data returned
find_sections_for_courses(course_codes, course_sections) ==
    find_loop(course_codes, course_sections, <<>>)

\* ScheduleService.auto_select_sections as one function of its argument
RECURSIVE select_all(_, _, _)
select_all(items, selected, committed) ==
    IF items = <<>> THEN selected
    ELSE LET best == best_section(Head(items).sections, committed)
         IN  select_all(Tail(items),
                        Append(selected, [code |-> Head(items).code, section |-> best]),
                        IF best # None THEN Append(committed, best) ELSE committed)

auto_select_sections(available) ==
    select_all(sorted_by_options(available), <<>>, InitialSchedule(<<>>))

(***************************************************************************)
(* The matcher on one loaded catalogue and one request (SpecMatch)         *)
(***************************************************************************)
CSI2110 == <<"C", "S", "I", "2", "1", "1", "0">>
CSI2120 == <<"C", "S", "I", "2", "1", "2", "0">>
CSI2115 == <<"C", "S", "I", "2", "1", "1", "5">>
CSI2101 == <<"C", "S", "I", "2", "1", "0", "1">>
MAT1341 == <<"M", "A", "T", "1", "3", "4", "1">>
MATH1341 == <<"M", "A", "T", "H", "1", "3", "4", "1">>
PHY1121 == <<"P", "H", "Y", "1", "1", "2", "1">>
ITI1100 == <<"I", "T", "I", "1", "1", "0", "0">>
csi_2110 == <<"c", "s", "i", " ", "2", "1", "1", "0">>

\* the codes a loaded catalogue may hold (normalized: no blank, upper case)
AvailableCodes == {CSI2110, CSI2120, CSI2101, MAT1341}

\* the codes a curriculum may ask for
RequestedCodes == {CSI2110, CSI2115, csi_2110, MAT1341, MATH1341, PHY1121}

MaxAvailable == 3
MaxRequested == 2

\* the two sections the catalogue lists under a code
FirstSection(code) ==
    [code |-> code, section |-> "A00", time |-> TimeStr(8, 30, 10, 0),
     days |-> <<"Monday", "Wednesday">>, is_open |-> TRUE, location |-> "STE A0150"]

SecondSection(code) ==
    [code |-> code, section |-> "B00", time |-> TimeStr(10, 0, 11, 30),
     days |-> <<"Tuesday", "Thursday">>, is_open |-> TRUE, location |-> "STE A0150"]

MatchCall ==
    /\ m_pc = "called"
    /\ m_result' = find_sections_for_courses(m_course_codes, m_course_sections)
    /\ m_pc' = "returned"
    /\ UNCHANGED <<m_course_sections, m_course_codes, m_selected, notMatch>>

\* auto_select_sections on what find_sections_for_courses returned, as the
\* orchestrator calls it
MatchSelect ==
    /\ m_pc = "returned"
    /\ m_selected' = auto_select_sections(m_result)
    /\ m_pc' = "selected"
    /\ UNCHANGED <<m_course_sections, m_course_codes, m_result, notMatch>>

InitMatch ==
    /\ \E n \in 0..MaxAvailable :
         \E codes \in [1..n -> AvailableCodes] :
            /\ \A i, j \in 1..n : i # j => codes[i] # codes[j]
            /\ m_course_sections =
                  [i \in 1..n |-> [code |-> codes[i],
                                   sections |-> <<FirstSection(codes[i]),
                                                  SecondSection(codes[i])>>]]
    /\ \E n \in 1..MaxRequested : m_course_codes \in [1..n -> RequestedCodes]
    /\ m_result = None
    /\ m_selected = None
    /\ m_pc = "called"
    /\ CfIdle /\ SimpleIdle /\ GroupedIdle /\ StoreIdle /\ OrderIdle
    /\ MaterializeIdle
    /\ ConcurrentIdle
    /\ AlternativeIdle
    /\ DaysIdle

NextMatch == MatchCall \/ MatchSelect

SpecMatch == InitMatch /\ [][NextMatch]_vars

\* the requested codes that no search code finds in the catalogue
Unmatched(course_code) ==
    /\ ~ HasKey(m_course_sections, course_code)
    /\ ~ HasKey(m_course_sections, _normalize_course_code(course_code))
    /\ ~ HasKey(m_course_sections, _add_space_to_course_code(course_code))

SameSubjectCodes(course_code) ==
    {k \in Range(Keys(m_course_sections)) :
        extract_subject_and_number(k).subject
            = extract_subject_and_number(course_code).subject}

Distance(course_code, k) ==
    AbsDiff(extract_subject_and_number(k).number[1],
            extract_subject_and_number(course_code).number[1])

Nearest(course_code) ==
    {k \in SameSubjectCodes(course_code) :
        \A other \in SameSubjectCodes(course_code) :
            Distance(course_code, k) <= Distance(course_code, other)}

\* C18: a requested code that is not in the catalogue verbatim, when codes
\* of its subject are, gets the sections of the code of that subject whose
\* number is nearest; of several nearest codes the lexicographically
\* smallest one, whatever the order of the catalogue.
C18_NearestThenLexicographic ==
    m_pc = "returned" =>
        \A i \in DOMAIN m_course_codes :
            LET c == m_course_codes[i] IN
            (Unmatched(c) /\ SameSubjectCodes(c) # {}) =>
                \E k \in Nearest(c) :
                    /\ \A other \in Nearest(c) : other = k \/ StrLess(k, other)
                    /\ Get(m_result, c) = Get(m_course_sections, k)

\* C19: a requested code with no exact match, no code of its subject and
\* whose first three characters are in no available code gets the empty
\* list, for which the selector answers None; every list returned is empty
\* or the list of one available code; the call returns a dict with an
\* entry for every requested code.
C19_NoMatchGivesEmptyList ==
    m_pc = "returned" =>
        /\ Range(Keys(m_result)) = Range(m_course_codes)
        /\ \A i \in DOMAIN m_course_codes :
            LET c == m_course_codes[i] IN
            /\ (/\ Unmatched(c)
                /\ SameSubjectCodes(c) = {}
                /\ \A k \in Range(Keys(m_course_sections)) :
                      ~ Contains(k, Prefix(_normalize_course_code(c), 3)))
               => /\ Get(m_result, c) = <<>>
                  /\ best_section(Get(m_result, c), <<>>) = None
            /\ \/ Get(m_result, c) = <<>>
               \/ \E k \in Range(Keys(m_course_sections)) :
                     Get(m_result, c) = Get(m_course_sections, k)

\* a request holding a code nothing matches beside one that is matched
C19_Witness ==
    /\ m_pc = "returned"
    /\ \E i, j \in DOMAIN m_course_codes :
          /\ Get(m_result, m_course_codes[i]) = <<>>
          /\ Get(m_result, m_course_codes[j]) # <<>>
          /\ Unmatched(m_course_codes[j])
    /\ m_course_sections # <<>>

(***************************************************************************)
(* The candidate ordering of auto_select_sections on one course's list     *)
(* (SpecOrder)                                                             *)
(***************************************************************************)
OrdEarly == Sec("A01", TimeStr(8, 30, 10, 0), <<"Monday", "Wednesday">>, TRUE, "STE A0150")
OrdLateOnline == Sec("B01", TimeStr(17, 0, 18, 30), <<"Tuesday">>, TRUE, "ONLINE")
OrdNoTime == Sec("C01", TBA, <<"Monday">>, TRUE, "STE A0150")
OrdNoDays == Sec("D01", TimeStr(10, 0, 11, 30), <<>>, TRUE, "CBY B012")
OrdClosed == Sec("E01", TimeStr(18, 0, 19, 30), <<"Friday">>, FALSE, "CBY B012")
OrdClosedNoTime == Sec("F01", NoTime, <<>>, FALSE, "TBA")
OrdEvening == Sec("G01", TimeStr(22, 0, 23, 30), <<"Thursday">>, TRUE, "STE A0150")
OrdDawnOnline == Sec("H01", TimeStr(5, 0, 6, 30), <<"Thursday">>, TRUE, "ONLINE")

OrderSections == {OrdEarly, OrdLateOnline, OrdNoTime, OrdNoDays, OrdClosed,
                  OrdClosedNoTime, OrdEvening, OrdDawnOnline}

MaxCandidates == 3

\* line 490: sorted_sections = sorted(sections, key = ...)
SortCandidates ==
    /\ o_pc = "start"
    /\ o_sorted' = sorted_sections(o_sections)
    /\ o_pc' = "sorted"
    /\ UNCHANGED <<o_sections, notOrder>>

InitOrder ==
    /\ \E n \in 0..MaxCandidates : o_sections \in [1..n -> OrderSections]
    /\ o_sorted = None
    /\ o_pc = "start"
    /\ CfIdle /\ SimpleIdle /\ GroupedIdle /\ StoreIdle /\ MatchIdle
    /\ MaterializeIdle
    /\ ConcurrentIdle
    /\ AlternativeIdle
    /\ DaysIdle

NextOrder == SortCandidates

SpecOrder == InitOrder /\ [][NextOrder]_vars

\* C17: in the sorted candidate list, among candidates of equal openness,
\* one without a parsed time range or without days comes after every one
\* that has both.
C17_UnparseableSortedLast ==
    o_pc = "sorted" =>
        \A i, j \in DOMAIN o_sorted :
            (/\ o_sorted[i].is_open = o_sorted[j].is_open
             /\ ~ HasParsedSchedule(o_sorted[i])
             /\ HasParsedSchedule(o_sorted[j])) => j < i

\* C25: after matching and selection no two requested codes are both given
\* a section of the same catalogue course.
C25_OneSectionPerCatalogCourse ==
    m_pc = "selected" =>
        \A i, j \in DOMAIN m_selected :
            (/\ i # j
             /\ m_selected[i].section # None
             /\ m_selected[j].section # None)
            => m_selected[i].section.code # m_selected[j].section.code

\* C27: in the sorted candidate list, among candidates of equal openness
\* with parsed times, every in-person candidate comes before every
\* candidate whose location is online or TBA.
C27_InPersonBeforeOnline ==
    o_pc = "sorted" =>
        \A i, j \in DOMAIN o_sorted :
            (/\ o_sorted[i].is_open = o_sorted[j].is_open
             /\ _parse_time_string(o_sorted[i].time) # None
             /\ _parse_time_string(o_sorted[j].time) # None
             /\ ~ IsOnlineOrTBA(o_sorted[i].location)
             /\ IsOnlineOrTBA(o_sorted[j].location)) => i < j

(***************************************************************************)
(* The calendar store (UserCalendar) and the requests that write to it     *)
(***************************************************************************)
Date(y, m, d) == [year |-> y, month |-> m, day |-> d]

\* term names
Fall == <<"F", "a", "l", "l">>
Winter == <<"W", "i", "n", "t", "e", "r">>
Spring == <<"S", "p", "r", "i", "n", "g">>
Summer == <<"S", "u", "m", "m", "e", "r">>
SpringSummer == Spring \o <<"/">> \o Summer

\* ScheduleService._get_term_dates
_get_term_dates(term, year) ==
    IF lower(term) = lower(Fall)
    THEN <<Date(year, 9, 3), Date(year, 12, 2)>>
    ELSE IF lower(term) = lower(Winter)
    THEN <<Date(year + 1, 1, 12), Date(year + 1, 4, 15)>>
    ELSE IF lower(term) \in {lower(Spring), lower(Summer)}
    THEN <<Date(year + 1, 5, 5), Date(year + 1, 7, 29)>>
    ELSE <<Date(year, 9, 3), Date(year, 12, 2)>>

\* the default of the year parameter of add_sections_to_calendar
DefaultYear == 2025

\* lines 586-628: the rows of one selected section, one per parsed day
RowsOfSection(user, entry, term, year, request) ==
    LET section == entry.section
        times == _parse_time_string(section.time)
        days == _parse_days_string(section.days)
        term_dates == _get_term_dates(term, year)
    IN  IF times = None \/ days = <<>> THEN <<>>
        ELSE [i \in DOMAIN days |->
                [user |-> user, title |-> entry.code, section |-> section.section,
                 start_time |-> times[1], end_time |-> times[2],
                 day_of_week |-> days[i],
                 start_date |-> term_dates[1], end_date |-> term_dates[2],
                 recurrence_pattern |-> "weekly",
                 request |-> request, term |-> term]]

\* lines 586-632, the loop over the selection: the rows created, the number
\* of create calls made and whether one of them raised.  The create call
\* number fail_at raises (none does when fail_at = 0): the except clause of
\* the course drops the remaining days of that course and the loop goes on.
RECURSIVE RowsOfSelection(_, _, _, _, _, _, _)
RowsOfSelection(user, selected, term, year, request, calls, fail_at) ==
    IF selected = <<>> THEN [rows |-> <<>>, calls |-> calls, raised |-> FALSE]
    ELSE The({
           LET raised == fail_at \in (calls + 1)..(calls + Len(wanted))
               created == IF raised THEN SubSeq(wanted, 1, fail_at - calls - 1)
                          ELSE wanted
               made == IF raised THEN fail_at - calls ELSE Len(wanted)
           IN  The({[rows |-> created \o rest.rows, calls |-> rest.calls,
                     raised |-> raised \/ rest.raised] :
                    rest \in {RowsOfSelection(user, Tail(selected), term, year,
                                              request, calls + made, fail_at)}})
           : wanted \in {IF Head(selected).section = None THEN <<>>
                         ELSE RowsOfSection(user, Head(selected), term, year, request)}})

WithId(row, id) ==
    [id |-> id, user |-> row.user, title |-> row.title, section |-> row.section,
     start_time |-> row.start_time, end_time |-> row.end_time,
     day_of_week |-> row.day_of_week,
     start_date |-> row.start_date, end_date |-> row.end_date,
     recurrence_pattern |-> row.recurrence_pattern,
     request |-> row.request, term |-> row.term]

\* ScheduleService.add_sections_to_calendar: the table afterwards and the
\* number of rows created.  request and term are bookkeeping of the model:
\* the request that created a row and the term it asked for.
add_sections_to_calendar(table, first_id, user, selected, term, year, request, calls, fail_at) ==
    The({[calendar |-> table \cup {WithId(done.rows[i], first_id + i - 1) :
                                      i \in DOMAIN done.rows},
          events_added |-> Len(done.rows),
          calls |-> done.calls,
          raised |-> done.raised] :
         done \in {RowsOfSelection(user, selected, term, year, request, calls, fail_at)}})

\* a mutant of clear_user_schedule: nothing is deleted
ClearNothing(table, user, term, year) == table

\* a mutant of clear_user_schedule: the recurrence is not looked at
ClearAnyRecurrence(table, user, term, year) ==
    LET term_dates == _get_term_dates(term, year)
    IN  {r \in table : ~ (/\ r.user = user
                          /\ r.start_date = term_dates[1]
                          /\ r.end_date = term_dates[2])}

\* lines 654-659: the queryset events_to_remove
events_to_remove(table, user, term, year) ==
    LET term_dates == _get_term_dates(term, year)
    IN  {r \in table : /\ r.user = user
                       /\ r.start_date = term_dates[1]
                       /\ r.end_date = term_dates[2]
                       /\ r.recurrence_pattern = "weekly"}

\* ScheduleService.clear_user_schedule: the table afterwards
clear_user_schedule(table, user, term, year) ==
    LET term_dates == _get_term_dates(term, year)
    IN  {r \in table : ~ (/\ r.user = user
                          /\ r.start_date = term_dates[1]
                          /\ r.end_date = term_dates[2]
                          /\ r.recurrence_pattern = "weekly")}

(***************************************************************************)
(* The curriculum collaborator (ProgramService) and the course-data file   *)
(***************************************************************************)
elective == <<"e", "l", "e", "c", "t", "i", "v", "e">>

\* s.split(sep)[0]
SplitHead(s, sep) ==
    IF Contains(s, sep)
    THEN SubSeq(s, 1, Min({i \in 0..(Len(s) - Len(sep)) :
                              SubSeq(s, i + 1, i + Len(sep)) = sep}))
    ELSE s

\* ProgramService.get_required_courses, from the term's courses list: the
\* code of every entry
get_required_courses(courses) ==
    [i \in DOMAIN courses |->
        without_spaces(strip(SplitHead(courses[i], <<" ", "|", " ">>)))]

IsElectiveInfo(course) == StartsWith(lower(course), elective)

\* ProgramService.get_electives_info, from the term's courses list
get_electives_info(courses) == SelectSeq(courses, IsElectiveInfo)

NotAnElective(c) == ~ Contains(lower(c), elective)

\* a mutant of filtered_courses: nothing is filtered out
AllCourses(full_courses) == full_courses

\* views.py line 3804: the entries that do not mention an elective
filtered_courses(full_courses) == SelectSeq(full_courses, NotAnElective)

\* views.py lines 3816-3822: the code of every entry
course_codes_of(entries) ==
    [i \in DOMAIN entries |->
        IF Contains(entries[i], <<"|">>)
        THEN strip(SplitHead(entries[i], <<"|">>)) ELSE strip(entries[i])]

\* ScheduleService._load_course_data: {} when the file is missing or is not
\* JSON (the except clause) or has no data for the term (no per-term file
\* either), else the term's sections by course code
_load_course_data(data, term) ==
    IF data.file # "ok" THEN <<>> ELSE data.by_term[term]

\* _convert_sections_to_events: the events of the chat response.  The days
\* are read item by item against the keys M T W R F S.
ConvertedEvents(selected) ==
    LET EventsOf(entry) ==
            IF entry.section = None THEN 0
            ELSE IF entry.section.time \in {TBA, NoTime} \/ entry.section.days = <<>>
            THEN 0
            ELSE Cardinality({i \in DOMAIN entry.section.days :
                                 entry.section.days[i] \in {"M", "T", "W", "R", "F", "S"}})
    IN  SeqSum([i \in DOMAIN selected |-> EventsOf(selected[i])])

Successful(selected) ==
    LET Chosen(entry) == entry.section # None
    IN  Keys(SelectSeq(selected, Chosen))

Failed(selected) ==
    LET NotChosen(entry) == entry.section = None
    IN  Keys(SelectSeq(selected, NotChosen))

Users == {"ana", "ben"}
Terms == {Fall, Winter, Summer}
StudyYears == {1, 2}

\* ScheduleService._determine_section_type
_determine_section_type(section_code) ==
    LET section_upper == upper(section_code)
    IN  IF section_code = <<>> THEN "LEC"
        ELSE IF Contains(section_upper, <<"L", "A", "B">>) THEN "LAB"
        ELSE IF Contains(section_upper, <<"D", "G", "D">>) THEN "DGD"
        ELSE IF Contains(section_upper, <<"T", "U", "T">>) THEN "TUT"
        ELSE IF Contains(section_upper, <<"S", "E", "M">>) THEN "SEM"
        ELSE IF Contains(section_upper, <<"L", "E", "C">>) THEN "LEC"
        ELSE IF Contains(section_upper, <<"W", "R", "K">>)
                \/ Contains(section_upper, <<"W", "O", "R", "K", "S", "H", "O", "P">>)
        THEN "WRK"
        ELSE IF Contains(section_upper, <<"S", "T", "U">>) THEN "STU"
        ELSE "LEC"

\* a section as _load_course_data builds it
Loaded(code, label, t, d, open, loc) ==
    [code |-> code, section |-> label, time |-> t, days |-> d,
     is_open |-> open, location |-> loc, type |-> _determine_section_type(label)]

A00 == <<"A", "0", "0">>
B00 == <<"B", "0", "0">>

Titled(code) == code \o <<" ", "|", " ", "T", "i", "t", "l", "e">>
Elective == <<"E", "l", "e", "c", "t", "i", "v", "e">>

\* what a term can be like: its courses list in the curriculum and its
\* sections in the course-data file (<<>>: the file has nothing for it)
TwoCourses ==
    [courses |-> <<Titled(MAT1341), Titled(CSI2110)>>,
     sections |->
        <<[code |-> MAT1341,
           sections |-> <<Loaded(MAT1341, A00, TimeStr(8, 30, 10, 0),
                                 <<"Monday", "Wednesday">>, TRUE, "STE A0150")>>],
          [code |-> CSI2110,
           sections |-> <<Loaded(CSI2110, A00, TimeStr(8, 30, 10, 0),
                                 <<"Monday", "Wednesday">>, TRUE, "STE A0150"),
                          Loaded(CSI2110, B00, TimeStr(10, 0, 11, 30),
                                 <<"Monday", "Wednesday">>, FALSE, "STE A0150")>>]>>]

CourseAndElective ==
    [courses |-> <<Titled(MAT1341), Elective>>,
     sections |->
        <<[code |-> MAT1341,
           sections |-> <<Loaded(MAT1341, A00, TimeStr(8, 30, 10, 0),
                                 <<"Tuesday", "Thursday">>, TRUE, "CBY B012")>>]>>]

ElectiveWithoutData == [courses |-> <<Titled(MAT1341), Elective>>, sections |-> <<>>]

CourseWithoutData == [courses |-> <<Titled(MAT1341)>>, sections |-> <<>>]

CourseWithoutTime ==
    [courses |-> <<Titled(PHY1121)>>,
     sections |->
        <<[code |-> PHY1121,
           sections |-> <<Loaded(PHY1121, A00, TBA, <<"Friday">>, TRUE, "STE A0150")>>]>>]

\* the curricula and course-data files of the model, term by term
StoreProfiles ==
    {[t \in Terms |-> TwoCourses],
     [t \in Terms |-> IF t = Fall THEN TwoCourses
                      ELSE IF t = Winter THEN CourseAndElective
                      ELSE CourseWithoutData],
     [t \in Terms |-> IF t = Fall THEN CourseWithoutTime ELSE CourseWithoutData],
     [t \in Terms |-> ElectiveWithoutData],
     [t \in Terms |-> CourseWithoutData]}

\* a row the user made by hand, in the Fall range of the default year
ManualRow ==
    [id |-> 1, user |-> "ana", title |-> <<"G", "y", "m">>, section |-> <<>>,
     start_time |-> [hour |-> 18, minute |-> 0],
     end_time |-> [hour |-> 19, minute |-> 0],
     day_of_week |-> "Friday",
     start_date |-> Date(2025, 9, 3), end_date |-> Date(2025, 12, 2),
     recurrence_pattern |-> "none", request |-> 0, term |-> <<>>]

MaxRequests == 2

\* lines 71-96 of generate_schedule_from_message, one pass of the loop over
\* the terms: courses and electives of the term, find, select, add (with
\* the default year); no clear.  acc gathers the table and the all_* lists.
chat_term(term, acc, user, request, fail_at) ==
    LET required_courses == get_required_courses(curriculum[term])
        electives_info == get_electives_info(curriculum[term])
    IN  IF required_courses = <<>> /\ electives_info = <<>> THEN acc
        ELSE The({
               The({[calendar |-> added.calendar,
                     next_id |-> acc.next_id + added.events_added,
                     calls |-> added.calls,
                     raised |-> acc.raised \/ added.raised,
                     all_events |-> acc.all_events + ConvertedEvents(selected),
                     all_successful |-> acc.all_successful \o Successful(selected),
                     all_failed |-> acc.all_failed \o Failed(selected),
                     all_electives |-> acc.all_electives \o electives_info,
                     to_matcher |-> acc.to_matcher \o required_courses] :
                    added \in {add_sections_to_calendar(acc.calendar, acc.next_id,
                                  user, selected, term, DefaultYear, request,
                                  acc.calls, fail_at)}})
               : selected \in {auto_select_sections(
                                  find_sections_for_courses(required_courses,
                                      _load_course_data(course_data, term)))}})

\* lines 70-96: the loop over the terms
RECURSIVE chat_terms(_, _, _, _, _)
chat_terms(terms_to_process, acc, user, request, fail_at) ==
    IF terms_to_process = <<>> THEN acc
    ELSE The({chat_terms(Tail(terms_to_process), next_acc, user, request, fail_at) :
              next_acc \in {chat_term(Head(terms_to_process), acc, user, request,
                                      fail_at)}})

\* ScheduleGeneratorService.generate_schedule_from_message, lines 59-126
GenerateScheduleFromMessage(user, single_term, fail_at) ==
    /\ requests < MaxRequests
    /\ LET terms_to_process == IF single_term # <<>> THEN <<single_term>>
                               ELSE <<Fall, Winter, Summer>>
       IN  \E done \in {chat_terms(terms_to_process,
                            [calendar |-> calendar, next_id |-> next_id, calls |-> 0,
                             raised |-> FALSE, all_events |-> 0,
                             all_successful |-> <<>>, all_failed |-> <<>>,
                             all_electives |-> <<>>, to_matcher |-> <<>>],
                            user, requests + 1, fail_at)} :
           /\ calendar' = done.calendar
           /\ next_id' = done.next_id
           /\ last_request' = [k \in DOMAIN last_request |->
                                 IF k[1] = user /\ k[2] \in Range(terms_to_process)
                                 THEN requests + 1 ELSE last_request[k]]
           /\ response' =
                 [success |-> ~ (/\ done.all_events = 0
                                 /\ done.all_successful = <<>>
                                 /\ done.all_electives = <<>>),
                  raised |-> FALSE,
                  events |-> done.all_events,
                  matched_courses |-> done.all_successful,
                  unmatched_courses |-> done.all_failed]
           /\ trace' = [entry |-> "chat", user |-> user,
                        terms |-> Range(terms_to_process),
                        to_matcher |-> done.to_matcher,
                        write_failed |-> done.raised,
                        events_added |-> done.next_id - next_id]
    /\ requests' = requests + 1
    /\ regen' = None
    /\ UNCHANGED <<curriculum, course_data, notStore>>

\* the response of generate_new_schedule on its early returns
Refusal == [success |-> FALSE, raised |-> FALSE,
            matched_courses |-> <<>>, unmatched_courses |-> <<>>]

\* ScheduleGenerationView.generate_new_schedule, lines 3783-3898: the
\* term's courses without the electives, find, select, and with a course
\* scheduled clear the term, then add.  After the save, line 3890 reads the
\* name selected_sections, which the function does not bind: the NameError
\* leaves the view as an unhandled exception.
GenerateNewSchedule(user, year, term, fail_at) ==
    /\ requests < MaxRequests
    /\ LET full_courses == curriculum[term]
           course_codes == course_codes_of(filtered_courses(full_courses))
       IN  \E available \in {find_sections_for_courses(
                                course_codes, _load_course_data(course_data, term))} :
           \E selected \in {auto_select_sections(available)} :
           \E added \in {add_sections_to_calendar(
                             clear_user_schedule(calendar, user, term, year),
                             next_id, user, selected, term, year, requests + 1,
                             0, fail_at)} :
           IF full_courses = <<>> \/ course_codes = <<>>
           THEN /\ UNCHANGED <<calendar, next_id>>
                /\ regen' = None
                /\ response' = Refusal
                /\ trace' = [entry |-> "new", user |-> user, terms |-> {term},
                             to_matcher |-> <<>>, write_failed |-> FALSE]
           ELSE IF available = <<>> \/ Successful(selected) = <<>>
           THEN /\ UNCHANGED <<calendar, next_id>>
                /\ regen' = None
                /\ response' = Refusal
                /\ trace' = [entry |-> "new", user |-> user, terms |-> {term},
                             to_matcher |-> course_codes, write_failed |-> FALSE]
           ELSE /\ calendar' = added.calendar
                /\ next_id' = next_id + added.events_added
                /\ regen' = [user |-> user, term |-> term, year |-> year,
                             selected |-> selected,
                             count |-> Cardinality(added.calendar),
                             repeats |-> /\ regen # None
                                         /\ regen.user = user /\ regen.term = term
                                         /\ regen.year = year
                                         /\ regen.selected = selected,
                             count_before |-> Cardinality(calendar)]
                /\ response' = [success |-> FALSE, raised |-> TRUE,
                                matched_courses |-> <<>>, unmatched_courses |-> <<>>]
                /\ trace' = [entry |-> "new", user |-> user, terms |-> {term},
                             to_matcher |-> course_codes,
                             write_failed |-> added.raised]
    /\ last_request' = [last_request EXCEPT ![<<user, term>>] = requests + 1]
    /\ requests' = requests + 1
    /\ UNCHANGED <<curriculum, course_data, notStore>>

\* ScheduleGenerationView.get_live_sections: the found sections of all the
\* codes, in one list
RECURSIVE flat_sections(_)
flat_sections(available) ==
    IF available = <<>> THEN <<>>
    ELSE LET entry == Head(available)
         IN  [i \in DOMAIN entry.sections |->
                 GSec(entry.sections[i].code, entry.sections[i].section,
                      entry.sections[i].type, entry.sections[i].time,
                      entry.sections[i].days, entry.sections[i].is_open)]
             \o flat_sections(Tail(available))

get_live_sections(course_codes, term) ==
    flat_sections(find_sections_for_courses(course_codes,
                                            _load_course_data(course_data, term)))

\* select_valid_sections as a function of its argument: what it can return,
\* over the shuffles of the courses and of each course's groups
RECURSIVE valid_selections(_, _, _)
valid_selections(course_order, sections, selected) ==
    IF course_order = <<>> THEN {selected}
    ELSE UNION {
           UNION {valid_selections(Tail(course_order), sections, next_selected) :
                  next_selected \in
                     {selected \o course_selections(available_groups, course_sections,
                                                    selected) :
                      available_groups \in Shuffles(GroupKeys(course_sections))}}
           : course_sections \in {SectionsOfCourse(sections, Head(course_order))}}

select_valid_sections(sections) ==
    UNION {valid_selections(course_order, sections, <<>>) :
           course_order \in Shuffles(CourseKeys(sections))}

\* the year get_term_dates of the view passes to _get_term_dates
ViewYear == 2024

\* the times insert_to_calendar uses for a time text without a range
DefaultTimes == <<[hour |-> 9, minute |-> 0], [hour |-> 10, minute |-> 30]>>

\* insert_to_calendar, lines 4371-4440: the rows of one section, one per
\* item of its days that is a day name
InsertedRowsOf(user, section, term, request) ==
    LET term_dates == _get_term_dates(term, ViewYear)
        parsed == _parse_time_string(section.time)
        times == IF parsed = None THEN DefaultTimes ELSE parsed
        days == SelectSeq(section.days, IsDayName)
    IN  IF section.course_code = <<>> \/ section.days = <<>> THEN <<>>
        ELSE [i \in DOMAIN days |->
                [user |-> user,
                 title |-> section.course_code \o <<" ", "-", " ">>,
                 section |-> section.section_code,
                 start_time |-> times[1], end_time |-> times[2],
                 day_of_week |-> TitleOfDayName(days[i]),
                 start_date |-> term_dates[1], end_date |-> term_dates[2],
                 recurrence_pattern |-> "weekly",
                 request |-> request, term |-> term]]

RECURSIVE InsertedRows(_, _, _, _)
InsertedRows(user, sections, term, request) ==
    IF sections = <<>> THEN <<>>
    ELSE InsertedRowsOf(user, Head(sections), term, request)
         \o InsertedRows(user, Tail(sections), term, request)

\* ScheduleGenerationView.insert_to_calendar: the table afterwards and the
\* number of rows created.  The create call number fail_at raises: the
\* except clause of the day skips that one row.
insert_to_calendar(table, first_id, user, sections, term, request, calls, fail_at) ==
    The({The({[calendar |-> table \cup {WithId(kept[i], first_id + i - 1) :
                                          i \in DOMAIN kept},
               events_created |-> Len(kept),
               calls |-> calls + Len(wanted),
               raised |-> fail_at \in (calls + 1)..(calls + Len(wanted))] :
              kept \in {Pick(wanted, {i \in DOMAIN wanted : calls + i # fail_at})}})
         : wanted \in {InsertedRows(user, sections, term, request)}})

\* lines 4047-4084 of generate_full_year_schedule, the loop over the terms;
\* picks gives, for each term, which of the selections select_valid_sections
\* can return it returned
\* lines 4050-4088, one pass of the loop over the terms, having selected
\* chosen: nothing when it is empty, else insert
full_year_term(term, chosen, course_codes, acc, user, request, fail_at) ==
    IF chosen = <<>> THEN [acc EXCEPT !.to_matcher = @ \o course_codes]
    ELSE The({[calendar |-> inserted.calendar,
               next_id |-> acc.next_id + inserted.events_created,
               calls |-> inserted.calls,
               raised |-> acc.raised \/ inserted.raised,
               to_matcher |-> acc.to_matcher \o course_codes,
               courses |-> acc.courses \o
                   KeysInOrder([i \in DOMAIN chosen |-> chosen[i].course_code])] :
              inserted \in {insert_to_calendar(acc.calendar, acc.next_id, user,
                                chosen, term, request, acc.calls, fail_at)}})

\* lines 4049-4088 of generate_full_year_schedule, the loop over the terms:
\* every outcome, over what select_valid_sections can return for each term
RECURSIVE full_year_terms(_, _, _, _, _)
full_year_terms(terms_to_process, acc, user, request, fail_at) ==
    IF terms_to_process = <<>> THEN {acc}
    ELSE LET term == Head(terms_to_process)
             full_courses == curriculum[term]
         IN  UNION {
               IF full_courses = <<>> \/ course_codes = <<>>
               THEN full_year_terms(Tail(terms_to_process), acc, user, request, fail_at)
               ELSE UNION {
                     UNION {full_year_terms(Tail(terms_to_process), next_acc, user,
                                            request, fail_at) :
                            next_acc \in {full_year_term(term, chosen, course_codes,
                                                         acc, user, request, fail_at)}}
                     : chosen \in select_valid_sections(
                                      get_live_sections(course_codes, term))}
               : course_codes \in {course_codes_of(filtered_courses(full_courses))}}

\* ScheduleGenerationView.generate_full_year_schedule, lines 4010-4111: the
\* terms of the year in the curriculum, every row of the user deleted, then
\* term after term find, select and insert
GenerateFullYearSchedule(user, fail_at) ==
    /\ requests < MaxRequests
    /\ LET terms_to_process == <<Fall, Winter, Summer>>
           emptied == {r \in calendar : r.user # user}
       IN  \E done \in full_year_terms(terms_to_process,
                          [calendar |-> emptied, next_id |-> next_id, calls |-> 0,
                           raised |-> FALSE, to_matcher |-> <<>>, courses |-> <<>>],
                          user, requests + 1, fail_at) :
              /\ calendar' = done.calendar
              /\ next_id' = done.next_id
              /\ last_request' = [k \in DOMAIN last_request |->
                                    IF k[1] = user /\ k[2] \in Range(terms_to_process)
                                    THEN requests + 1 ELSE last_request[k]]
              /\ response' = [success |-> TRUE, raised |-> FALSE,
                              matched_courses |-> done.courses,
                              unmatched_courses |-> <<>>]
              /\ trace' = [entry |-> "year", user |-> user,
                           terms |-> Range(terms_to_process),
                           to_matcher |-> done.to_matcher,
                           write_failed |-> done.raised]
    /\ requests' = requests + 1
    /\ regen' = None
    /\ UNCHANGED <<curriculum, course_data, notStore>>

\* the table, the curriculum and the course-data file before the requests
StoreStart ==
    /\ calendar = {ManualRow}
    /\ next_id = 2
    /\ \E profile \in StoreProfiles :
          /\ curriculum = [t \in Terms |-> profile[t].courses]
          /\ \/ course_data = [file |-> "ok",
                               by_term |-> [t \in Terms |-> profile[t].sections]]
             \/ /\ \A t \in Terms : profile[t].sections = <<>>
                /\ \E file \in {"missing", "malformed"} :
                      course_data = [file |-> file,
                                     by_term |-> [t \in Terms |-> <<>>]]
    /\ requests = 0
    /\ last_request = [k \in Users \X Terms |-> 0]
    /\ regen = None
    /\ response = None
    /\ trace = None

InitStore ==
    /\ StoreStart
    /\ CfIdle /\ SimpleIdle /\ GroupedIdle /\ MatchIdle /\ OrderIdle
    /\ MaterializeIdle
    /\ ConcurrentIdle
    /\ AlternativeIdle
    /\ DaysIdle

NextStore ==
    \/ \E user \in Users, single_term \in Terms \cup {<<>>} :
          GenerateScheduleFromMessage(user, single_term, 0)
    \/ \E user \in Users, year \in StudyYears, term \in Terms :
          GenerateNewSchedule(user, year, term, 0)
    \/ \E user \in Users : GenerateFullYearSchedule(user, 0)

\* generation requests, one after the other, on the calendar store
SpecStore == InitStore /\ [][NextStore]_vars

MaxFaultyRequests == 1
MaxFailAt == 2

NextFaulty ==
    /\ requests < MaxFaultyRequests
    /\ \/ \E user \in Users, single_term \in Terms \cup {<<>>}, fail_at \in 0..MaxFailAt :
             GenerateScheduleFromMessage(user, single_term, fail_at)
       \/ \E user \in Users, year \in StudyYears, term \in Terms, fail_at \in 0..MaxFailAt :
             GenerateNewSchedule(user, year, term, fail_at)
       \/ \E user \in Users, fail_at \in 0..MaxFailAt :
             GenerateFullYearSchedule(user, fail_at)

\* generation requests during which a write to the store may fail
SpecFaulty == InitStore /\ [][NextFaulty]_vars

\* C3: after any sequence of completed generation requests of a user for a
\* term, the stored rows of that user and term are those of the most recent
\* request only: nothing accumulates across retries.
C3_OnlyLatestRequestStored ==
    \A u \in Users : \A t \in Terms :
        last_request[<<u, t>>] # 0 =>
            \A r \in calendar :
                (r.user = u /\ r.term = t) => r.request = last_request[<<u, t>>]

\* C4: clear_user_schedule then add_sections_to_calendar, done twice in a row
\* for the same user, term, year and selection, leaves as many rows as doing
\* it once.
C4_RegenerationIdempotent ==
    (regen # None /\ regen.repeats) => regen.count = regen.count_before

\* a repeated regeneration that wrote rows, beside rows it must not count
C4_Witness ==
    /\ regen # None
    /\ regen.repeats
    /\ \E r \in calendar : r.request = requests
    /\ \E r \in calendar : r.request = 0

\* C11: a request during which a write to the calendar store failed does
\* not report success.
C11_WriteFailureReported ==
    (trace # None /\ trace.write_failed) => ~ response.success

\* an entry of a curriculum that is an elective placeholder, or the code
\* made of one
MentionsElective(c) == Contains(lower(c), elective)

\* C12: no elective placeholder is passed to find_sections_for_courses, and
\* none is among the scheduled or unscheduled courses of the response.
C12_ElectivesFilteredOut ==
    trace # None =>
        /\ \A i \in DOMAIN trace.to_matcher : ~ MentionsElective(trace.to_matcher[i])
        /\ \A i \in DOMAIN response.matched_courses :
               ~ MentionsElective(response.matched_courses[i])
        /\ \A i \in DOMAIN response.unmatched_courses :
               ~ MentionsElective(response.unmatched_courses[i])

\* C13: a request of a user leaves every stored record outside what it asked
\* for as it was: the records of other users, the user's records of other
\* terms and the user's calendar events that no generation made.
C13_RecordsOutsideRequestKept ==
    [][\A r \in calendar :
          (r.user # trace'.user \/ r.term \notin trace'.terms) => r \in calendar']_vars

\* C22: a request that ends with nothing scheduled (it is refused, or the
\* full-year run selects no section in any term) leaves the stored calendar
\* records as they were.
C22_NothingScheduledKeepsRecords ==
    [][(/\ requests' = requests + 1
        /\ \/ response' = Refusal
           \/ /\ trace'.entry = "year"
              /\ response'.matched_courses = <<>>)
          => calendar' = calendar]_vars

\* C23: a single-term generation that scheduled a course and whose calendar
\* write went through ends with a success response, never with an unhandled
\* error after its records were stored.
C23_PersistedRunReturnsSuccess ==
    (/\ trace # None /\ trace.entry = "new"
     /\ ~trace.write_failed
     /\ \E r \in calendar : r.request = requests /\ r.user = trace.user)
        => (response.success /\ ~response.raised)

\* C24: every course the chat response lists in matched_courses has a
\* calendar record made for it by that request.
C24_ScheduledCoursesHaveRecords ==
    (trace # None /\ trace.entry = "chat") =>
        \A i \in DOMAIN response.matched_courses :
            \E r \in calendar : /\ r.request = requests
                                /\ r.user = trace.user
                                /\ r.title = response.matched_courses[i]

\* C28: the chat response holds as many events as calendar records were
\* made for the request (the sections being those of the loader).
C28_EventsMatchRecords ==
    (trace # None /\ trace.entry = "chat") => response.events = trace.events_added

\* C16: when the loader has nothing for any term the chat request works
\* on, its response has success = false.
C16_NoDataReportedAsFailure ==
    (/\ trace # None
     /\ trace.entry = "chat"
     /\ \A t \in trace.terms : _load_course_data(course_data, t) = <<>>)
        => ~ response.success

(***************************************************************************)
(* clear_user_schedule and add_sections_to_calendar, each on its own, on   *)
(* tables and selections of every kind                                     *)
(***************************************************************************)
\* the day names, letter by letter
DayNameChars ==
    [name \in Weekdays |->
        CASE name = "Monday" -> <<"M", "o", "n", "d", "a", "y">>
          [] name = "Tuesday" -> <<"T", "u", "e", "s", "d", "a", "y">>
          [] name = "Wednesday" -> <<"W", "e", "d", "n", "e", "s", "d", "a", "y">>
          [] name = "Thursday" -> <<"T", "h", "u", "r", "s", "d", "a", "y">>
          [] name = "Friday" -> <<"F", "r", "i", "d", "a", "y">>
          [] name = "Saturday" -> <<"S", "a", "t", "u", "r", "d", "a", "y">>
          [] name = "Sunday" -> <<"S", "u", "n", "d", "a", "y">>]

IsDayNameText(tok) == \E name \in Weekdays : lower(tok) = lower(DayNameChars[name])

DayOfText(tok) == CHOOSE name \in Weekdays : lower(tok) = lower(DayNameChars[name])

DaySeparators == {",", "/", " "}

\* re.split(r"[,/\s]+", days_input) without the empty tokens
RECURSIVE day_tokens(_)
day_tokens(text) ==
    IF text = <<>> THEN <<>>
    ELSE IF Head(text) \in DaySeparators THEN day_tokens(Tail(text))
    ELSE LET stops == {i \in DOMAIN text : text[i] \in DaySeparators}
             n == IF stops = {} THEN Len(text) ELSE Min(stops) - 1
         IN  <<SubSeq(text, 1, n)>> \o day_tokens(SubSeq(text, n + 1, Len(text)))

\* ScheduleService._parse_days_string, string form (lines 264-274): the day
\* names among the tokens when there is one, else the day of every
\* character of the upper-cased text that is a key of day_mapping
_parse_days_text(days_input) ==
    LET tokens == day_tokens(days_input)
        chars == upper(days_input)
        mapped == {i \in DOMAIN chars : chars[i] \in DOMAIN day_mapping}
    IN  IF \E i \in DOMAIN tokens : IsDayNameText(tokens[i])
        THEN LET names == SelectSeq(tokens, IsDayNameText)
             IN  [i \in DOMAIN names |-> DayOfText(names[i])]
        ELSE LET kept == Pick(chars, mapped)
             IN  [i \in DOMAIN kept |-> day_mapping[kept[i]]]

\* _extract_days_from_schedule on a schedule dict: its days, a list or a
\* text, parsed by _parse_days_string
_extract_days(raw) ==
    IF "list" \in DOMAIN raw THEN _parse_days_string(raw.list)
    ELSE _parse_days_text(raw.text)

TuTh == <<"T", "u", "T", "h">>
MonWed == <<"M", "o", "n", "d", "a", "y", ",", " ", "w", "e", "d", "n", "e", "s", "d", "a", "y">>

\* selected sections, as the loader builds them and the selector hands
\* them over; a course without a section has None
MaterializeEntries ==
    {[code |-> MAT1341,
      section |-> Loaded(MAT1341, A00, TimeStr(8, 30, 10, 0),
                         _extract_days([list |-> <<"Mo", "We">>]), TRUE, "STE A0150")],
     [code |-> CSI2110,
      section |-> Loaded(CSI2110, A00, TimeStr(10, 0, 11, 30),
                         _extract_days([text |-> TuTh]), TRUE, "STE A0150")],
     [code |-> CSI2120,
      section |-> Loaded(CSI2120, B00, TimeStr(13, 0, 14, 30),
                         _extract_days([text |-> MonWed]), FALSE, "ONLINE")],
     [code |-> CSI2101,
      section |-> Loaded(CSI2101, A00, TBA,
                         _extract_days([text |-> <<"F">>]), TRUE, "STE A0150")],
     [code |-> PHY1121, section |-> None]}

MaxSelected == 1

MaterializeTerms == {Fall, Winter, Spring, Summer, SpringSummer, lower(Fall), upper(Winter)}

MaterializeYears == {2024, 2025}

StoredRow(id, user, day, dates, recurrence) ==
    [id |-> id, user |-> user, title |-> MAT1341, section |-> A00,
     start_time |-> [hour |-> 8, minute |-> 30],
     end_time |-> [hour |-> 10, minute |-> 0],
     day_of_week |-> day, start_date |-> dates[1], end_date |-> dates[2],
     recurrence_pattern |-> recurrence, request |-> 0, term |-> <<>>]

\* rows a table can hold before the call: of either user, in the Fall and
\* Winter ranges of 2025 and in a range of neither, weekly and not
StoredRows ==
    {StoredRow(1, "ana", "Monday", _get_term_dates(Fall, 2025), "weekly"),
     StoredRow(2, "ana", "Friday", _get_term_dates(Fall, 2025), "none"),
     StoredRow(3, "ben", "Monday", _get_term_dates(Fall, 2025), "weekly"),
     StoredRow(4, "ana", "Monday", _get_term_dates(Winter, 2025), "weekly"),
     StoredRow(5, "ana", "Monday",
               <<_get_term_dates(Fall, 2025)[1], _get_term_dates(Winter, 2025)[2]>>,
               "weekly")}

FirstFreeId == 6

\* ScheduleService.clear_user_schedule(user, term, year)
ClearUserSchedule(user, term, year) ==
    /\ mz_op = None
    /\ mz_table' = clear_user_schedule(mz_table, user, term, year)
    /\ mz_op' = [name |-> "clear", user |-> user, term |-> term, year |-> year,
                 before |-> mz_table,
                 returned |-> Cardinality(events_to_remove(mz_table, user, term, year))]
    /\ UNCHANGED <<mz_next_id, notMaterialize>>

\* ScheduleService.add_sections_to_calendar(user, selected_sections, term, year)
AddSectionsToCalendar(user, selected, term, year) ==
    /\ mz_op = None
    /\ LET added == add_sections_to_calendar(mz_table, mz_next_id, user, selected,
                                             term, year, 0, 0, 0)
       IN  /\ mz_table' = added.calendar
           /\ mz_next_id' = mz_next_id + added.events_added
           /\ mz_op' = [name |-> "add", user |-> user, term |-> term, year |-> year,
                        selected |-> selected, before |-> mz_table,
                        returned |-> added.events_added]
    /\ UNCHANGED notMaterialize

InitMaterialize ==
    /\ mz_table \in SUBSET StoredRows
    /\ mz_next_id = FirstFreeId
    /\ mz_op = None
    /\ CfIdle /\ SimpleIdle /\ GroupedIdle /\ StoreIdle /\ MatchIdle /\ OrderIdle
    /\ ConcurrentIdle
    /\ AlternativeIdle
    /\ DaysIdle

NextMaterialize ==
    \/ \E user \in Users, term \in MaterializeTerms, year \in MaterializeYears :
          ClearUserSchedule(user, term, year)
    \/ \E user \in Users, term \in MaterializeTerms, year \in MaterializeYears :
          \E n \in 0..MaxSelected : \E selected \in [1..n -> MaterializeEntries] :
             /\ \A i \in 1..n : \A j \in 1..n :
                   i # j => selected[i].code # selected[j].code
             /\ AddSectionsToCalendar(user, selected, term, year)

\* one call of clear_user_schedule or add_sections_to_calendar on a table
SpecMaterialize == InitMaterialize /\ [][NextMaterialize]_vars

\* the rows of a table that are of the user, in the date range of the
\* term and weekly
InRangeWeekly(r, user, term, year) ==
    /\ r.user = user
    /\ <<r.start_date, r.end_date>> = _get_term_dates(term, year)
    /\ r.recurrence_pattern = "weekly"

\* C14: clear_user_schedule deletes exactly the user's weekly rows whose
\* start and end dates are the term's, leaves every other row as it was
\* and returns the number of rows it deleted.
C14_ClearsExactlyTheTermRows ==
    (mz_op # None /\ mz_op.name = "clear") =>
        /\ mz_table \subseteq mz_op.before
        /\ \A r \in mz_op.before :
               r \notin mz_table <=> InRangeWeekly(r, mz_op.user, mz_op.term, mz_op.year)
        /\ mz_op.returned = Cardinality(mz_op.before \ mz_table)

\* a clear that deleted a row and left behind a row of another user, a row
\* of another range and a row that is not weekly
C14_Witness ==
    /\ mz_op # None /\ mz_op.name = "clear"
    /\ mz_op.returned > 0
    /\ \E r \in mz_table : r.user # mz_op.user
    /\ \E r \in mz_table : /\ r.user = mz_op.user
                            /\ r.recurrence_pattern = "weekly"
    /\ \E r \in mz_table : /\ r.user = mz_op.user
                            /\ r.recurrence_pattern # "weekly"

\* the (section, meeting day) pairs of a selection: the position of every
\* entry that has a section with a time range, with each of its days
MeetingPairs(selected) ==
    {<<i, day>> \in (DOMAIN selected) \X Weekdays :
        /\ selected[i].section # None
        /\ _parse_time_string(selected[i].section.time) # None
        /\ day \in Range(selected[i].section.days)}

\* the row made for the pair
IsRowOf(r, pair, op) ==
    LET entry == op.selected[pair[1]]
        times == _parse_time_string(entry.section.time)
    IN  /\ r.user = op.user
        /\ r.title = entry.code
        /\ r.day_of_week = pair[2]
        /\ r.start_time = times[1] /\ r.end_time = times[2]
        /\ <<r.start_date, r.end_date>> = _get_term_dates(op.term, op.year)
        /\ r.recurrence_pattern = "weekly"

\* C15: add_sections_to_calendar creates exactly one row for every pair of
\* a selected section and one of its distinct meeting days, none for an
\* entry without a section, and returns the number of rows it created.
C15_OneRecordPerSectionDay ==
    (mz_op # None /\ mz_op.name = "add") =>
        LET created == mz_table \ mz_op.before
            pairs == MeetingPairs(mz_op.selected)
        IN  /\ mz_op.before \subseteq mz_table
            /\ \A pair \in pairs :
                   Cardinality({r \in created : IsRowOf(r, pair, mz_op)}) = 1
            /\ \A r \in created : \E pair \in pairs : IsRowOf(r, pair, mz_op)
            /\ mz_op.returned = Cardinality(created)

IsSpringSummer(term) == lower(term) \in {lower(Spring), lower(Summer), lower(SpringSummer)}

\* C20: the rows made for a Spring, Summer or Spring/Summer term, in any
\* letter case, are not in the Fall range of the year.
C20_SpringSummerNotInFallRange ==
    (mz_op # None /\ mz_op.name = "add" /\ IsSpringSummer(mz_op.term)) =>
        \A r \in mz_table \ mz_op.before :
           <<r.start_date, r.end_date>> # _get_term_dates(Fall, mz_op.year)

(***************************************************************************)
(* _parse_days_string on two-letter day codes, in the list form and in    *)
(* the string forms                                                        *)
(***************************************************************************)
TwoLetterCodes == {"Mo", "Tu", "We", "Th", "Fr", "Sa", "Su"}

\* a two-letter code, letter by letter
CodeChars ==
    [c \in TwoLetterCodes |->
        CASE c = "Mo" -> <<"M", "o">>
          [] c = "Tu" -> <<"T", "u">>
          [] c = "We" -> <<"W", "e">>
          [] c = "Th" -> <<"T", "h">>
          [] c = "Fr" -> <<"F", "r">>
          [] c = "Sa" -> <<"S", "a">>
          [] c = "Su" -> <<"S", "u">>]

\* ''.join(codes)
RECURSIVE Joined(_)
Joined(codes) ==
    IF codes = <<>> THEN <<>> ELSE CodeChars[Head(codes)] \o Joined(Tail(codes))

\* ', '.join(codes)
RECURSIVE CommaJoined(_)
CommaJoined(codes) ==
    IF codes = <<>> THEN <<>>
    ELSE IF Len(codes) = 1 THEN CodeChars[Head(codes)]
    ELSE CodeChars[Head(codes)] \o <<",", " ">> \o CommaJoined(Tail(codes))

MaxCodes == 2

\* _parse_days_string(codes), _parse_days_string(''.join(codes)) and
\* _parse_days_string(', '.join(codes))
ParseDays ==
    /\ d_pc = "start"
    /\ d_list' = _parse_days_string(d_codes)
    /\ d_text' = _parse_days_text(Joined(d_codes))
    /\ d_spaced' = _parse_days_text(CommaJoined(d_codes))
    /\ d_pc' = "parsed"
    /\ UNCHANGED <<d_codes, notDays>>

InitDays ==
    /\ \E n \in 0..MaxCodes : d_codes \in [1..n -> TwoLetterCodes]
    /\ d_list = None /\ d_text = None /\ d_spaced = None
    /\ d_pc = "start"
    /\ CfIdle /\ SimpleIdle /\ GroupedIdle /\ StoreIdle /\ MatchIdle /\ OrderIdle
    /\ MaterializeIdle
    /\ ConcurrentIdle
    /\ AlternativeIdle

NextDays == ParseDays

\* the three forms of every short sequence of two-letter codes, parsed
SpecDays == InitDays /\ [][NextDays]_vars

\* C30: for a sequence of two-letter day codes, the list form and the string
\* forms give the same set of weekdays, and no form gives a weekday twice
\* for codes that are all different.
C30_ListAndStringFormsAgree ==
    d_pc = "parsed" =>
        /\ Range(d_text) = Range(d_list)
        /\ Range(d_spaced) = Range(d_list)
        /\ Cardinality(Range(d_codes)) = Len(d_codes) =>
              /\ Len(d_list) = Cardinality(Range(d_list))
              /\ Len(d_text) = Cardinality(Range(d_text))
              /\ Len(d_spaced) = Cardinality(Range(d_spaced))

(***************************************************************************)
(* ScheduleService.generate_alternative_schedule (SpecAlternative)         *)
(***************************************************************************)
\* an instructor name of the data file; a JSON null is None
Named(name) == [name |-> name]

\* section_info of _load_course_data, the instructor included
Instructed(code, label, t, d, instructor) ==
    [code |-> code, section |-> label, time |-> t, days |-> d, is_open |-> TRUE,
     location |-> "STE A0150", type |-> _determine_section_type(label),
     instructor |-> instructor]

\* _find_best_section, lines 827-830: the defaults of the constraints
DefaultEarliestStart == [hour |-> 6, minute |-> 0]
DefaultLatestEnd == [hour |-> 22, minute |-> 0]

\* _section_meets_time_constraints: no avoided day among the section's days,
\* and a parsed time inside [earliest_start, latest_end]
_section_meets_time_constraints(section, earliest_start, latest_end, avoid_days) ==
    LET times == _parse_time_string(section.time)
        Before(a, b) == a.hour * 60 + a.minute < b.hour * 60 + b.minute
    IN  /\ Range(avoid_days) \cap Range(section.days) = {}
        /\ \/ times = None
           \/ ~ (Before(times[1], earliest_start) \/ Before(latest_end, times[2]))

\* _calculate_section_score without its random part: 1.0, and 2.0 for each
\* preferred time of day whose hours ("08:" ...) occur in the time text
PreferredHours(pref_time) ==
    IF pref_time = "morning" THEN 8..11
    ELSE IF pref_time = "afternoon" THEN 12..16
    ELSE IF pref_time = "evening" THEN 17..20
    ELSE {}

_calculate_section_score(section, time_constraints) ==
    LET preferred_times == time_constraints.preferred_times
        Matches(i) == /\ section.time \notin {TBA, NoTime}
                      /\ {section.time.sh, section.time.eh}
                            \cap PreferredHours(preferred_times[i]) # {}
    IN  2 * Cardinality({i \in DOMAIN preferred_times : Matches(i)}) + 1

\* _find_best_section: the sections it may return.  instructor.strip() raises
\* on an instructor that is None, time_constraints.get on constraints that
\* are None.  random.uniform(0, 0.5) is added to every score, so any of the
\* admitted sections with the highest score above can come first.
_find_best_section(sections, existing_sections, avoid_sections, time_constraints) ==
    IF time_constraints = None \/ \E i \in DOMAIN sections : sections[i].instructor = None
    THEN {[raised |-> TRUE, section |-> None]}
    ELSE LET Admitted(section) ==
                /\ ~ \E i \in DOMAIN avoid_sections :
                        Contains(section.section, avoid_sections[i])
                /\ ~ _section_conflicts_with_schedule(section, existing_sections)
                /\ _section_meets_time_constraints(section, DefaultEarliestStart,
                                                   DefaultLatestEnd, <<>>)
             scored_sections == Range(SelectSeq(sections, Admitted))
             Best(section) ==
                \A other \in scored_sections :
                    _calculate_section_score(other, time_constraints)
                        <= _calculate_section_score(section, time_constraints)
         IN  IF scored_sections = {} THEN {[raised |-> FALSE, section |-> None]}
             ELSE {[raised |-> FALSE, section |-> section] :
                      section \in {x \in scored_sections : Best(x)}}

\* course_type_sections[course_code]: the types in the order they first occur
RECURSIVE TypesInOrder(_, _)
TypesInOrder(sections, seen) ==
    IF sections = <<>> THEN seen
    ELSE TypesInOrder(Tail(sections),
                      IF Head(sections).type \in Range(seen) THEN seen
                      ELSE Append(seen, Head(sections).type))

\* lines 791-803, the loop over the types of one course
RECURSIVE select_types(_, _, _, _, _)
select_types(types, sections, acc, avoid_sections, time_constraints) ==
    IF types = <<>> \/ acc.raised THEN {acc}
    ELSE LET OfType(section) == section.type = Head(types)
         IN  UNION {select_types(Tail(types), sections,
                        IF best.raised THEN [acc EXCEPT !.raised = TRUE]
                        ELSE IF best.section = None THEN acc
                        ELSE [acc EXCEPT !.chosen = Append(@, best.section),
                                         !.all_selected = Append(@, best.section)],
                        avoid_sections, time_constraints)
                    : best \in _find_best_section(SelectSeq(sections, OfType),
                                   acc.all_selected, avoid_sections, time_constraints)}

\* lines 786-814, the loop over the courses and the flattened result; the
\* None of a course without a selection is the empty list here
RECURSIVE select_courses(_, _, _, _)
select_courses(available, acc, avoid_sections, time_constraints) ==
    IF available = <<>> \/ acc.raised THEN {acc}
    ELSE UNION {select_courses(Tail(available),
                    [raised |-> course.raised,
                     all_selected |-> course.all_selected,
                     result |-> Append(acc.result,
                                  [code |-> Head(available).code,
                                   sections |-> course.chosen])],
                    avoid_sections, time_constraints)
                : course \in select_types(TypesInOrder(Head(available).sections, <<>>),
                                 Head(available).sections,
                                 [raised |-> FALSE, chosen |-> <<>>,
                                  all_selected |-> acc.all_selected],
                                 avoid_sections, time_constraints)}

\* auto_select_sections_with_preferences: the results it may return.  Any
\* exception in its body is answered by auto_select_sections on the same
\* sections (lines 816-819); that result has one section under each code.
auto_select_sections_with_preferences(available, preferences, avoid_sections) ==
    LET runs == select_courses(available,
                    [raised |-> FALSE, all_selected |-> <<>>, result |-> <<>>],
                    avoid_sections, preferences.time_constraints)
        Fallback(selected) ==
            [i \in DOMAIN selected |->
                [code |-> selected[i].code,
                 sections |-> IF selected[i].section = None THEN <<>>
                              ELSE <<selected[i].section>>]]
    IN  {IF run.raised THEN Fallback(auto_select_sections(available)) ELSE run.result
         : run \in runs}

\* lines 953-958: the section codes of the current schedule
avoid_sections_of(current_schedule) ==
    LET Given(section) == section.section_code # <<>>
        kept == SelectSeq(current_schedule, Given)
    IN  [i \in DOMAIN kept |-> kept[i].section_code]

\* generate_alternative_schedule: the results it may return
generate_alternative_schedule(course_codes, course_sections, current_schedule, preferences) ==
    LET found == find_sections_for_courses(course_codes, course_sections)
        Selected(entry) == entry.sections # <<>>
    IN  IF found = <<>> THEN {[success |-> FALSE, sections |-> <<>>]}
        ELSE {IF SelectSeq(selected, Selected) # <<>>
              THEN [success |-> TRUE, sections |-> SelectSeq(selected, Selected)]
              ELSE [success |-> FALSE, sections |-> <<>>]
              : selected \in auto_select_sections_with_preferences(
                                 found, preferences, avoid_sections_of(current_schedule))}

\* what the data file may name as the instructor of a section
Instructors == {Named("Smith"), None}

A01LAB == <<"A", "0", "1", "-", "L", "A", "B">>

\* the loaded sections of two courses
AlternativeData(i1, i2, i3, i4) ==
    <<[code |-> MAT1341,
       sections |-> <<Instructed(MAT1341, A00, TimeStr(8, 30, 10, 0),
                                 <<"Monday", "Wednesday">>, i1),
                      Instructed(MAT1341, B00, TimeStr(13, 0, 14, 30),
                                 <<"Tuesday", "Thursday">>, i2)>>],
      [code |-> CSI2110,
       sections |-> <<Instructed(CSI2110, A00, TimeStr(10, 0, 11, 30),
                                 <<"Tuesday", "Thursday">>, i3),
                      Instructed(CSI2110, A01LAB, TimeStr(14, 30, 16, 0),
                                 <<"Friday">>, i4)>>]>>

\* what handle_schedule_change_request reads from the stored records
Current(section_code) == [section_code |-> section_code]

CurrentSchedules ==
    {<<>>, <<Current(A00)>>, <<Current(B00)>>, <<Current(A00), Current(A01LAB)>>}

\* the analysis as ScheduleCustomizationService returns it: time_constraints
\* is what the parsed answer holds under that key
Analyses ==
    {[time_constraints |-> tc] :
        tc \in {[preferred_times |-> <<>>], [preferred_times |-> <<"morning">>],
                [preferred_times |-> <<"afternoon">>], None}}

InitAlternative ==
    /\ \E i1, i2, i3, i4 \in Instructors :
          alt_course_sections = AlternativeData(i1, i2, i3, i4)
    /\ alt_course_codes \in {<<MAT1341>>, <<MAT1341, CSI2110>>}
    /\ alt_current_schedule \in CurrentSchedules
    /\ alt_preferences \in Analyses
    /\ alt_result = None
    /\ alt_pc = "called"
    /\ CfIdle /\ SimpleIdle /\ GroupedIdle /\ StoreIdle /\ MatchIdle /\ OrderIdle
    /\ MaterializeIdle /\ DaysIdle
    /\ ConcurrentIdle

AlternativeCall ==
    /\ alt_pc = "called"
    /\ alt_result' \in generate_alternative_schedule(
                           alt_course_codes, alt_course_sections,
                           alt_current_schedule, alt_preferences)
    /\ alt_pc' = "returned"
    /\ UNCHANGED <<alt_course_sections, alt_course_codes, alt_current_schedule,
                   alt_preferences, notAlternative>>

NextAlternative == AlternativeCall

SpecAlternative == InitAlternative /\ [][NextAlternative]_vars

\* the section codes of the current schedule
CurrentSectionCodes ==
    {alt_current_schedule[i].section_code : i \in DOMAIN alt_current_schedule}

\* C29: no section generate_alternative_schedule returns has a section code
\* of the current schedule.
C29_NoCurrentSectionReturned ==
    alt_pc = "returned" =>
        \A i \in DOMAIN alt_result.sections :
            \A j \in DOMAIN alt_result.sections[i].sections :
                alt_result.sections[i].sections[j].section \notin CurrentSectionCodes

(***************************************************************************)
(* Two generate_new_schedule requests for one user and term, running at    *)
(* once (SpecConcurrent).  Nothing in views.py 3852-3868 opens a           *)
(* transaction or takes a lock: the DELETE of clear_user_schedule and each *)
(* UserCalendar.objects.create of add_sections_to_calendar is a statement  *)
(* of its own.                                                             *)
(***************************************************************************)
ConcurrentRequests == 1..2

ConcurrentUser == "ana"

\* what auto_select_sections handed a request
ConcurrentSelections ==
    LET mat == [code |-> MAT1341,
                section |-> Loaded(MAT1341, A00, TimeStr(8, 30, 10, 0),
                                   <<"Monday", "Wednesday">>, TRUE, "STE A0150")]
        csi == [code |-> CSI2110,
                section |-> Loaded(CSI2110, B00, TimeStr(10, 0, 11, 30),
                                   <<"Tuesday">>, TRUE, "STE A0150")]
    IN  {<<mat>>, <<csi>>, <<mat, csi>>}

\* rows stored before the requests: an earlier schedule of the term, a row
\* made by hand and a row of another user
ConcurrentStoredRows(year) ==
    {StoredRow(1, "ana", "Monday", _get_term_dates(Fall, year), "weekly"),
     StoredRow(2, "ana", "Friday", _get_term_dates(Fall, year), "none"),
     StoredRow(3, "ben", "Monday", _get_term_dates(Fall, year), "weekly")}

\* the rows add_sections_to_calendar creates for a request, in order
RowsToCreate(request) ==
    RowsOfSelection(ConcurrentUser, cc_selected[request], Fall, cc_year,
                    request, 0, 0).rows

\* line 3855: ScheduleService.clear_user_schedule(request.user, term, year)
ConcurrentClear(request) ==
    /\ cc_pc[request] = "clear"
    /\ cc_table' = clear_user_schedule(cc_table, ConcurrentUser, Fall, cc_year)
    /\ cc_pc' = [cc_pc EXCEPT ![request] =
                    IF RowsToCreate(request) = <<>> THEN "done" ELSE "add"]
    /\ UNCHANGED <<cc_next_id, cc_year, cc_selected, cc_created, notConcurrent>>

\* line 3856, add_sections_to_calendar: its next UserCalendar.objects.create
ConcurrentCreate(request) ==
    /\ cc_pc[request] = "add"
    /\ \E rows \in {RowsToCreate(request)} :
          /\ cc_table' = cc_table \cup {WithId(rows[cc_created[request] + 1], cc_next_id)}
          /\ cc_pc' = [cc_pc EXCEPT ![request] =
                          IF cc_created[request] + 1 = Len(rows) THEN "done" ELSE "add"]
    /\ cc_next_id' = cc_next_id + 1
    /\ cc_created' = [cc_created EXCEPT ![request] = @ + 1]
    /\ UNCHANGED <<cc_year, cc_selected, notConcurrent>>

InitConcurrent ==
    /\ cc_year \in StudyYears
    /\ cc_table \in SUBSET ConcurrentStoredRows(cc_year)
    /\ cc_next_id = FirstFreeId
    /\ cc_selected \in [ConcurrentRequests -> ConcurrentSelections]
    /\ cc_created = [request \in ConcurrentRequests |-> 0]
    /\ cc_pc = [request \in ConcurrentRequests |-> "clear"]
    /\ CfIdle /\ SimpleIdle /\ GroupedIdle /\ StoreIdle /\ MatchIdle /\ OrderIdle
    /\ MaterializeIdle /\ DaysIdle /\ AlternativeIdle

NextConcurrent ==
    \E request \in ConcurrentRequests :
        ConcurrentClear(request) \/ ConcurrentCreate(request)

SpecConcurrent == InitConcurrent /\ [][NextConcurrent]_vars

\* the stored rows of the user in the term
ConcurrentTermRows == events_to_remove(cc_table, ConcurrentUser, Fall, cc_year)

\* C21: when both requests have finished, the rows stored for the term are
\* those of exactly one of the two requests.
C21_OneRequestsRowsRemain ==
    (\A request \in ConcurrentRequests : cc_pc[request] = "done") =>
        \E request \in ConcurrentRequests :
            /\ ConcurrentTermRows = {row \in cc_table : row.request = request}
            /\ Cardinality(ConcurrentTermRows) = Len(RowsToCreate(request))

====
